---- MODULE Spec2Model ----
(***************************************************************************)
(* Model of the document ingestion utilities: the recursive chunker        *)
(* (recursive_chunker.py), the Document value type (document.py) and the   *)
(* row clustering of the OCR layout reconstruction (azure_ocr_utils.py).   *)
(*                                                                         *)
(* A Python str is a sequence of one-character strings, so that splitting, *)
(* slicing, concatenation and formatting are computed character by         *)
(* character.                                                              *)
(***************************************************************************)
EXTENDS Integers, Sequences, FiniteSets, TLC

VARIABLES
    \* RecursiveChunker instance
    chunker,            \* "new" | "ready" | "ValueError" (outcome of __init__)
    chunk_size,
    chunk_overlap,
    separators,
    keep_separator,
    is_separator_regex,
    nltk_tokenizer,     \* TRUE iff __init__ created self.nltk_tokenizer
    text,               \* argument of the last _chunk_text call
    result,             \* outcome of the last _chunk_text call
    \* get_rows_of_objects_by_page
    objects_by_page,    \* page number -> list of lines or paragraphs
    threshold_y,
    rows_of_objects,    \* outcome of the call: page number -> list of rows
    \* Documents
    docs,               \* the Document objects that exist, in order of creation
    metas,              \* the dict objects that exist: docs[i].meta is an index here
    compared,           \* the last __eq__ call: its operands and its result
    run_output,         \* outcome of RecursiveChunker.run: the Documents it returned
    \* construct_text_from_rows_of_objects_by_page
    text_rows,          \* argument rows_of_objects_by_page: page number -> rows of objects
    text_pages,         \* result.pages: the page numbers in the source's order
    all_text,           \* outcome of the call
    \* AzureOCRDocumentConverter
    converter,          \* "new" | "ready" | "ValueError" (outcome of __init__)
    page_layout,
    converter_threshold_y,  \* self.threshold_y: None or Some(number)
    table_format,
    extract_tables_separately,
    preceding_context_len,
    following_context_len,
    analysis,           \* the AnalyzeResult handed to _convert_tables_and_text
    converted,          \* outcome of _convert_tables_and_text
    \* DocumentTokenTruncater
    truncater,          \* "new" | "ready" | "ValueError" (outcome of __init__)
    max_token_len,
    reserve_token_len,
    strategy,
    truncated_output    \* outcome of DocumentTokenTruncater.run

chunkerVars == <<chunker, chunk_size, chunk_overlap, separators, keep_separator,
                 is_separator_regex, nltk_tokenizer, text, result>>

rowsVars == <<objects_by_page, threshold_y, rows_of_objects>>

docVars == <<docs, metas, compared, run_output>>

textVars == <<text_rows, text_pages, all_text>>

converterVars == <<converter, page_layout, converter_threshold_y, table_format,
                   extract_tables_separately, preceding_context_len,
                   following_context_len, analysis, converted>>

truncaterVars == <<truncater, max_token_len, reserve_token_len, strategy, truncated_output>>

vars == <<chunkerVars, rowsVars, docVars, textVars, converterVars, truncaterVars>>

----------------------------------------------------------------------------
(* Bounds of the model *)

MaxLen == 5          \* longest enumerated text
MaxChunkSize == 3    \* largest enumerated chunk_size
MaxObjects == 3      \* most lines or paragraphs in one analysis result
MaxY == 2            \* largest y coordinate of an upper-left corner
MaxDocs == 2         \* most Documents passed to run
MaxRowObjects == 3   \* most objects in the rows handed to the text assembly
MaxTextObjects == 2  \* most lines and paragraphs of an analysis result
MaxTables == 1       \* most tables of an analysis result
MaxContextLines == 3 \* most lines around a table whose context is extracted
MaxContextLen == 2   \* largest enumerated preceding/following_context_len
MaxTokenLen == 5     \* largest enumerated max_token_len
MaxReserveTokenLen == 1  \* largest enumerated reserve_token_len

----------------------------------------------------------------------------
(* Python str helpers *)

\* An Optional value: None is the empty tuple, a value v is <<v>>
None == <<>>
Some(v) == <<v>>

SP == <<" ">>
DOT == <<".">>
SENTENCE == <<"s", "e", "n", "t", "e", "n", "c", "e">>

Whitespace == {" ", "\n"}

Min(a, b) == IF a <= b THEN a ELSE b
Max(a, b) == IF a >= b THEN a ELSE b

\* bool(s.strip()): the string has a character that is not whitespace
strip_nonempty(s) == \E i \in 1..Len(s) : s[i] \notin Whitespace

\* text[i:].startswith(sep), i 1-based
startswith_at(s, sep, i) ==
    /\ i + Len(sep) - 1 <= Len(s)
    /\ \A j \in 1..Len(sep) : s[i + j - 1] = sep[j]

\* sub in s  (Python substring test; the empty string is in every string)
is_substring(sub, s) == \E i \in 1..(Len(s) + 1) : startswith_at(s, sub, i)

RECURSIVE str_split_from(_, _, _, _)
str_split_from(s, sep, i, cur) ==
    IF i > Len(s) THEN <<cur>>
    ELSE IF startswith_at(s, sep, i)
         THEN <<cur>> \o str_split_from(s, sep, i + Len(sep), <<>>)
         ELSE str_split_from(s, sep, i + 1, Append(cur, s[i]))

\* s.split(sep) for a non-empty sep
str_split(s, sep) == str_split_from(s, sep, 1, <<>>)

RECURSIVE str_join(_)
str_join(pieces) ==
    IF pieces = <<>> THEN <<>> ELSE Head(pieces) \o str_join(Tail(pieces))

\* s[start:] with a 0-based start
str_from(s, start) == SubSeq(s, start + 1, Len(s))

----------------------------------------------------------------------------
(* re.split for the pattern language used here: literal characters, "." for *)
(* any character but a newline, and "|" for ordered alternation. Patterns   *)
(* that can match the empty string are outside the enumerated separators.   *)

re_alternatives(pattern) == str_split(pattern, <<"|">>)

re_alt_matches_at(alt, s, i) ==
    /\ Len(alt) > 0
    /\ i + Len(alt) - 1 <= Len(s)
    /\ \A j \in 1..Len(alt) :
          IF alt[j] = "." THEN s[i + j - 1] # "\n" ELSE s[i + j - 1] = alt[j]

\* length of the match of pattern at position i of s, 0 when there is none:
\* the first alternative that matches wins
re_match_len(pattern, s, i) ==
    LET alts == re_alternatives(pattern)
        hit  == {k \in 1..Len(alts) : re_alt_matches_at(alts[k], s, i)}
    IN  IF hit = {} THEN 0
        ELSE Len(alts[CHOOSE k \in hit : \A m \in hit : k <= m])

RECURSIVE re_split_from(_, _, _, _)
re_split_from(pattern, s, i, cur) ==
    IF i > Len(s) THEN <<cur>>
    ELSE LET n == re_match_len(pattern, s, i) IN
         IF n > 0
         THEN <<cur>> \o re_split_from(pattern, s, i + n, <<>>)
         ELSE re_split_from(pattern, s, i + 1, Append(cur, s[i]))

\* re.split(pattern, s)
re_split(pattern, s) == re_split_from(pattern, s, 1, <<>>)

----------------------------------------------------------------------------
(* SentenceSplitter(language="en").split_sentences: the sentence tokenizer  *)
(* lives outside the reviewed sources. A sentence ends at a "." that is     *)
(* followed by whitespace; the whitespace between sentences belongs to no   *)
(* sentence.                                                                *)

RECURSIVE str_lstrip(_)
str_lstrip(s) ==
    IF s # <<>> /\ Head(s) \in Whitespace THEN str_lstrip(Tail(s)) ELSE s

RECURSIVE str_rstrip(_)
str_rstrip(s) ==
    IF s # <<>> /\ s[Len(s)] \in Whitespace
    THEN str_rstrip(SubSeq(s, 1, Len(s) - 1)) ELSE s

str_strip(s) == str_rstrip(str_lstrip(s))

RECURSIVE sentences_from(_, _, _)
sentences_from(s, i, cur) ==
    IF i > Len(s) THEN (IF str_strip(cur) = <<>> THEN <<>> ELSE <<str_strip(cur)>>)
    ELSE IF s[i] = "." /\ i < Len(s) /\ s[i + 1] \in Whitespace
         THEN <<str_strip(Append(cur, s[i]))>> \o sentences_from(s, i + 1, <<>>)
         ELSE sentences_from(s, i + 1, Append(cur, s[i]))

split_sentences(s) == sentences_from(s, 1, <<>>)

----------------------------------------------------------------------------
(* RecursiveChunker *)

\* a check that lets chunk_overlap = chunk_size pass
check_params_allows_equal(size, overlap) == overlap < 0 \/ overlap > size

\* _check_params: the ValueError conditions
check_params_fails(size, overlap) ==
    \/ overlap < 0
    \/ overlap >= size

\* the base case with a strict comparison
fits_chunk_size_strict(s) == Len(s) < chunk_size

\* len(text) <= self.chunk_size
fits_chunk_size(s) == Len(s) <= chunk_size

\* a chunk is kept with its content before any overlap was prepended
\* (pre is bookkeeping of the model; out is the string the code holds)
Chunk(s) == [out |-> s, pre |-> s]

\* the prefix _apply_overlap takes from the previous chunk
overlap_prefix(prev) == str_from(prev, Max(0, Len(prev) - chunk_overlap))

\* _apply_overlap
apply_overlap(chunks) ==
    [idx \in 1..Len(chunks) |->
        IF idx = 1 THEN chunks[idx]
        ELSE [out |-> overlap_prefix(chunks[idx - 1].out) \o chunks[idx].out,
              pre |-> chunks[idx].pre]]

\* a window that is one character too long
window_too_wide(s, i) == SubSeq(s, i + 1, Min(i + chunk_size + 1, Len(s)))

\* the window text[i : i + chunk_size], i 0-based
window(s, i) == SubSeq(s, i + 1, Min(i + chunk_size, Len(s)))

\* [text[i : i + chunk_size] for i in range(0, len(text), chunk_size - chunk_overlap)]
fixed_width(s) ==
    LET step == chunk_size - chunk_overlap
        n    == (Len(s) + step - 1) \div step
    IN  [j \in 1..n |-> Chunk(window(s, (j - 1) * step))]

\* the fragment with the separator appended again
split_text_of(split, separator) ==
    IF keep_separator /\ separator # SENTENCE THEN split \o separator ELSE split

\* the branch "if separator in 'sentence'"
uses_sentence_tokenizer(separator) == is_substring(separator, SENTENCE)

\* the raw splits of one separator
raw_splits(s, separator) ==
    IF uses_sentence_tokenizer(separator) THEN split_sentences(s)
    ELSE IF ~is_separator_regex THEN str_split(s, separator)
    ELSE re_split(separator, s)

Ok(chunks) == [err |-> "", chunks |-> chunks]
Raised(e) == [err |-> e, chunks |-> <<>>]
NotCalled == [err |-> "not called", chunks |-> <<>>]

RECURSIVE chunk_text(_, _)
RECURSIVE accumulate(_, _, _, _, _, _)
RECURSIVE try_separators(_, _, _)

\* the loop "for split in splits" from element idx on; chunks, current_chunk
\* and current_length are the loop's variables. The exception of a recursive
\* call leaves the loop.
accumulate(splits, idx, separator, chunks, current_chunk, stack) ==
    IF idx > Len(splits)
    THEN Ok(IF current_chunk # <<>>
            THEN Append(chunks, Chunk(str_join(current_chunk)))
            ELSE chunks)
    ELSE
      LET split_text     == split_text_of(splits[idx], separator)
          current_length == Len(str_join(current_chunk))
      IN  IF current_length + Len(split_text) > chunk_size
          THEN LET flushed == IF current_chunk # <<>>
                              THEN Append(chunks, Chunk(str_join(current_chunk)))
                              ELSE chunks
               IN  IF Len(split_text) > chunk_size
                   THEN LET rec == chunk_text(split_text, stack) IN
                        IF rec.err # "" THEN rec
                        ELSE accumulate(splits, idx + 1, separator,
                                        flushed \o rec.chunks, <<>>, stack)
                   ELSE accumulate(splits, idx + 1, separator,
                                   Append(flushed, Chunk(split_text)), <<>>, stack)
          ELSE accumulate(splits, idx + 1, separator, chunks,
                          Append(current_chunk, split_text), stack)

\* the loop "for separator in self.separators" from separator k on, and the
\* character-level fallback after it
try_separators(s, k, stack) ==
    IF k > Len(separators) THEN Ok(fixed_width(s))
    ELSE
      LET separator == separators[k] IN
      IF uses_sentence_tokenizer(separator) /\ ~nltk_tokenizer
      THEN Raised("AttributeError")
      ELSE
        LET splits == SelectSeq(raw_splits(s, separator), strip_nonempty) IN
        IF Len(splits) = 1 THEN try_separators(s, k + 1, stack)
        ELSE LET r == accumulate(splits, 1, separator, <<>>, <<>>, stack) IN
             IF r.err # "" THEN r
             ELSE IF chunk_overlap > 0 THEN Ok(apply_overlap(r.chunks))
             ELSE r

\* _chunk_text. stack is the set of texts of the calls in progress: the
\* function is deterministic, so a call with a text that is already being
\* chunked recurses without end and Python raises RecursionError.
chunk_text(s, stack) ==
    IF fits_chunk_size(s) THEN Ok(<<Chunk(s)>>)
    ELSE IF s \in stack THEN Raised("RecursionError")
    ELSE try_separators(s, 1, stack \cup {s})

\* the strings returned
returned(r) == [i \in 1..Len(r.chunks) |-> r.chunks[i].out]


----------------------------------------------------------------------------
(* get_rows_of_objects_by_page (azure_ocr_utils.py)                        *)
(*                                                                         *)
(* An object is a record with the upper-left point of its bounding polygon *)
(* (polygon = <<x, y>>) or with no polygon (polygon = <<>>). Coordinates   *)
(* and threshold_y are integers in one common unit. A row holds objects by *)
(* their index in the page's list, which is the object's identity.         *)

Pages == {1, 2}

has_polygon(obj) == obj.polygon # <<>>
left_up_x(obj) == obj.polygon[1]
left_up_y(obj) == obj.polygon[2]

Abs(n) == IF n < 0 THEN -n ELSE n

\* close_on_y_axis, for two objects with polygons
close_on_y_axis(a, b, threshold) == Abs(left_up_y(a) - left_up_y(b)) < threshold

\* a pair test that compares against the first object of the page only
close_to_first_only(objects, i, j, threshold) ==
    i = 1 /\ close_on_y_axis(objects[i], objects[j], threshold)

\* the test of the inner loop for the pair (i, j)
pair_is_close(objects, i, j, threshold) ==
    close_on_y_axis(objects[i], objects[j], threshold)

\* the close pairs only, without the self loops
pairs_without_self_loops(objects, threshold) ==
    IF \A i \in 1..Len(objects) : has_polygon(objects[i])
    THEN {p \in (1..Len(objects)) \X (1..Len(objects)) :
             p[1] < p[2] /\ pair_is_close(objects, p[1], p[2], threshold)}
    ELSE {}

\* pairs_by_page[page_number]: the self loops [i, i] and the close pairs
\* [i, j], i < j; only the self loops when an object has no polygon
pairs_of_page(objects, threshold) ==
    IF \A i \in 1..Len(objects) : has_polygon(objects[i])
    THEN {<<i, i>> : i \in 1..Len(objects)} \cup
         {p \in (1..Len(objects)) \X (1..Len(objects)) :
             p[1] < p[2] /\ pair_is_close(objects, p[1], p[2], threshold)}
    ELSE {<<i, i>> : i \in 1..Len(objects)}

\* the nodes one edge away from a set of nodes
neighbours(pairs, nodes) ==
    nodes \cup {p[2] : p \in {q \in pairs : q[1] \in nodes}}
          \cup {p[1] : p \in {q \in pairs : q[2] \in nodes}}

\* breadth-first search from a set of nodes
RECURSIVE plain_bfs(_, _)
plain_bfs(pairs, nodes) ==
    LET next == neighbours(pairs, nodes) IN
    IF next = nodes THEN nodes ELSE plain_bfs(pairs, next)

SetMin(S) == CHOOSE m \in S : \A n \in S : m <= n

\* the elements of a set of indices in ascending order
RECURSIVE ascending(_)
ascending(S) ==
    IF S = {} THEN <<>> ELSE <<SetMin(S)>> \o ascending(S \ {SetMin(S)})

\* [list(a) for a in nx.connected_components(graph)]: the components in the
\* order of their first node, each in ascending order of index
RECURSIVE connected_components(_, _)
connected_components(pairs, unseen) ==
    IF unseen = {} THEN <<>>
    ELSE LET c == plain_bfs(pairs, {SetMin(unseen)}) IN
         <<ascending(c)>> \o connected_components(pairs, unseen \ c)

merged_pairs(objects, threshold) ==
    LET pairs == pairs_of_page(objects, threshold) IN
    connected_components(pairs, {p[1] : p \in pairs})

\* sorted(seq, key=...): keys[i] is the key of seq[i]. Stable insertion of
\* the position e into the list of positions sorted by ascending key
RECURSIVE insert_sorted(_, _, _, _)
insert_sorted(sorted, e, keys, i) ==
    IF i > Len(sorted) THEN Append(sorted, e)
    ELSE IF keys[e] < keys[sorted[i]]
         THEN SubSeq(sorted, 1, i - 1) \o <<e>> \o SubSeq(sorted, i, Len(sorted))
         ELSE insert_sorted(sorted, e, keys, i + 1)

RECURSIVE py_sorted_from(_, _, _)
py_sorted_from(keys, i, acc) ==
    IF i > Len(keys) THEN acc
    ELSE py_sorted_from(keys, i + 1, insert_sorted(acc, i, keys, 1))

py_sorted(seq, keys) ==
    LET order == py_sorted_from(keys, 1, <<>>) IN
    [k \in 1..Len(seq) |-> seq[order[k]]]

\* the rows as they come from the clustering, in no particular order
unsorted_rows_of_page(objects, rows) == rows

\* _get_sorted_rows_of_objects_per_page for one page: each row by x, then the
\* rows by the y of their first object
sorted_rows_of_page(objects, rows) ==
    LET keys_x(row) == [k \in 1..Len(row) |-> left_up_x(objects[row[k]])]
        x_sorted == [r \in 1..Len(rows) |-> py_sorted(rows[r], keys_x(rows[r]))]
        keys_y == [r \in 1..Len(rows) |-> left_up_y(objects[x_sorted[r][1]])]
    IN  py_sorted(x_sorted, keys_y)

\* the sort keys subscript the polygon of every object in every row
sort_raises(objs_by_page) ==
    \E pn \in Pages : \E i \in 1..Len(objs_by_page[pn]) :
        ~has_polygon(objs_by_page[pn][i])

RowsNotComputed == [err |-> "not called", rows |-> [pn \in Pages |-> <<>>]]

\* get_rows_of_objects_by_page
get_rows_of_objects_by_page(objs_by_page, threshold) ==
    IF sort_raises(objs_by_page)
    THEN [err |-> "TypeError", rows |-> [pn \in Pages |-> <<>>]]
    ELSE [err |-> "",
          rows |-> [pn \in Pages |->
                      sorted_rows_of_page(objs_by_page[pn],
                                          merged_pairs(objs_by_page[pn], threshold))]]

\* the state of the variables of this part while another part runs
IdleRows ==
    /\ objects_by_page = [pn \in Pages |-> <<>>]
    /\ threshold_y = 0
    /\ rows_of_objects = RowsNotComputed


----------------------------------------------------------------------------
(* Document (document.py)                                                  *)
(*                                                                         *)
(* A Document is a record of its fields. content, blob, score, embedding   *)
(* and sparse_embedding are Optional values; id is a str, "" when none was *)
(* given; meta is a reference to a dict object in metas, because a dict    *)
(* passed to the constructor is kept, not copied. A dict is the sequence   *)
(* of its <<key, value>> items in insertion order. A float is modelled by  *)
(* the integer n it equals (n.0), bytes by their characters.               *)

STR_NONE == <<"N", "o", "n", "e">>

DigitChars == <<"0", "1", "2", "3", "4", "5", "6", "7", "8", "9">>

\* str(n) for a one-digit integer
str_int(n) == <<DigitChars[n + 1]>>

\* repr of the float n.0
repr_float(n) == str_int(n) \o <<".", "0">>

\* the escape sequence of repr for a character: "\n" is written as a
\* backslash and n, "\f" as \x0c
repr_char(c) ==
    IF c = "\n" THEN <<"\\", "n">>
    ELSE IF c = "\f" THEN <<"\\", "x", "0", "c">>
    ELSE <<c>>

\* repr(s) of a str without quotes in it
repr_str(s) == <<"'">> \o str_join([i \in 1..Len(s) |-> repr_char(s[i])]) \o <<"'">>

\* values of meta that are not str: the int n and True, told apart from a
\* str (a sequence of characters) by their first element
PyInt(n) == <<"int", DigitChars[n + 1]>>
PyTrue == <<"bool", "True">>

\* repr(v) of a value of meta
repr_value(v) ==
    IF v # <<>> /\ v[1] = "int" THEN <<v[2]>>
    ELSE IF v # <<>> /\ v[1] = "bool" THEN <<"T", "r", "u", "e">>
    ELSE repr_str(v)

\* str(b) of bytes
str_bytes(b) == <<"b", "'">> \o b \o <<"'">>

\* ", ".join(parts)
RECURSIVE join_comma(_)
join_comma(parts) ==
    IF parts = <<>> THEN <<>>
    ELSE IF Len(parts) = 1 THEN parts[1]
    ELSE parts[1] \o <<",", " ">> \o join_comma(Tail(parts))

\* str of a list of floats
str_float_list(l) ==
    <<"[">> \o join_comma([i \in 1..Len(l) |-> repr_float(l[i])]) \o <<"]">>

\* str of a list of ints
str_int_list(l) ==
    <<"[">> \o join_comma([i \in 1..Len(l) |-> str_int(l[i])]) \o <<"]">>

\* the characters of a dict key
key_chars(k) ==
    CASE k = "a" -> <<"a">>
      [] k = "b" -> <<"b">>
      [] k = "id" -> <<"i", "d">>
      [] k = "original_id" -> <<"o", "r", "i", "g", "i", "n", "a", "l", "_", "i", "d">>
      [] k = "truncated" -> <<"t", "r", "u", "n", "c", "a", "t", "e", "d">>
      [] k = "page" -> <<"p", "a", "g", "e">>
      [] k = "preceding_context" ->
            <<"p", "r", "e", "c", "e", "d", "i", "n", "g", "_",
              "c", "o", "n", "t", "e", "x", "t">>
      [] k = "following_context" ->
            <<"f", "o", "l", "l", "o", "w", "i", "n", "g", "_",
              "c", "o", "n", "t", "e", "x", "t">>

\* str(d) of a dict with str keys: the items in insertion order
str_dict(d) ==
    <<"{">> \o
    join_comma([i \in 1..Len(d) |->
                  repr_str(key_chars(d[i][1])) \o <<":", " ">> \o repr_value(d[i][2])]) \o
    <<"}">>

\* str(sparse_embedding.to_dict())
str_sparse(se) ==
    <<"{">> \o repr_str(<<"i", "n", "d", "i", "c", "e", "s">>) \o <<":", " ">> \o str_int_list(se.indices) \o
    <<",", " ">> \o repr_str(<<"v", "a", "l", "u", "e", "s">>) \o <<":", " ">> \o str_float_list(se.values) \o
    <<"}">>

\* hashlib.sha256(data).hexdigest(): injective on the strings hashed (no
\* collisions), and marked so that it differs from the ids given by callers
sha256_hexdigest(data) == <<"#">> \o data

\* the f-string of _create_id
id_data(content, blob, meta, embedding, sparse_embedding) ==
    LET text_s      == IF content = None \/ content = Some(<<>>)
                       THEN STR_NONE ELSE content[1]
        blob_s      == IF blob # None THEN str_bytes(blob[1].data) ELSE STR_NONE
        mime_type_s == IF blob # None /\ blob[1].mime_type # None
                       THEN blob[1].mime_type[1] ELSE STR_NONE
        meta_s      == str_dict(meta)
        embedding_s == IF embedding # None THEN str_float_list(embedding[1]) ELSE STR_NONE
        sparse_s    == IF sparse_embedding # None THEN str_sparse(sparse_embedding[1])
                       ELSE <<>>
    IN  text_s \o blob_s \o mime_type_s \o meta_s \o embedding_s \o sparse_s

\* an f-string that also formats the score
id_data_with_score(doc, heap) ==
    id_data(doc.content, doc.blob, heap[doc.meta], doc.embedding, doc.sparse_embedding)
        \o (IF doc.score = None THEN STR_NONE ELSE repr_float(doc.score[1]))

\* the string hashed for a Document
hashed_data(doc, heap) ==
    id_data(doc.content, doc.blob, heap[doc.meta], doc.embedding, doc.sparse_embedding)

\* Document._create_id
create_id(doc, heap) == sha256_hexdigest(hashed_data(doc, heap))

\* Document(...) with __post_init__: the new object, its meta a reference
new_document(id, content, blob, meta_ref, score, embedding, sparse_embedding, heap) ==
    LET fields == [id |-> id, content |-> content, blob |-> blob, meta |-> meta_ref,
                   score |-> score, embedding |-> embedding,
                   sparse_embedding |-> sparse_embedding, id_given |-> id # <<>>]
    IN  [fields EXCEPT !.id = IF id # <<>> THEN id ELSE create_id(fields, heap)]

FieldKeys == {"id", "content", "blob", "score", "embedding", "sparse_embedding"}

\* the keys of a dict
dict_keys(d) == {d[i][1] : i \in 1..Len(d)}

\* d[k]
dict_get(d, k) == d[CHOOSE i \in 1..Len(d) : d[i][1] = k][2]

\* d[k] = v: a new key goes to the end, an old key keeps its place
dict_set(d, k, v) ==
    IF k \in dict_keys(d)
    THEN [i \in 1..Len(d) |-> IF d[i][1] = k THEN <<k, v>> ELSE d[i]]
    ELSE Append(d, <<k, v>>)

\* Document.to_dict(flatten=True): {**data, **meta}, a key of meta replaces
\* the field of the same name
to_dict(doc, heap) ==
    LET meta == heap[doc.meta] IN
    [k \in FieldKeys \cup dict_keys(meta) |->
        IF k \in dict_keys(meta) THEN dict_get(meta, k) ELSE doc[k]]

\* Document.__eq__; other is a value with its type
document_eq(self, other, heap) ==
    IF other.type # "Document" THEN FALSE
    ELSE to_dict(self, heap) = to_dict(other.doc, heap)

NotCompared == [left |-> 0, right |-> 0, other_type |-> "none", result |-> FALSE]

NotRun == [err |-> "not run", documents |-> <<>>]

\* no Document exists
IdleDocs ==
    /\ docs = <<>>
    /\ metas = <<>>
    /\ compared = NotCompared
    /\ run_output = NotRun

NotAssembled == [err |-> "not called", text |-> <<>>]

\* construct_text_from_rows_of_objects_by_page was not called
IdleText ==
    /\ text_rows = <<>>
    /\ text_pages = <<>>
    /\ all_text = NotAssembled

EmptyAnalysis == [pages |-> <<>>, paragraphs |-> <<>>, tables |-> <<>>]

NotConverted == [err |-> "not called", documents |-> <<>>]

\* no converter constructed yet
IdleConverter ==
    /\ converter = "new"
    /\ page_layout = "natural"
    /\ converter_threshold_y = None
    /\ table_format = "csv"
    /\ extract_tables_separately = TRUE
    /\ preceding_context_len = 0
    /\ following_context_len = 0
    /\ analysis = EmptyAnalysis
    /\ converted = NotConverted

NotTruncated == [err |-> "not called", given |-> 0, documents |-> <<>>]

\* no truncater constructed yet
IdleTruncater ==
    /\ truncater = "new"
    /\ max_token_len = 0
    /\ reserve_token_len = 0
    /\ strategy = "end"
    /\ truncated_output = NotTruncated

\* the parts of the state that belong to the components added later
IdleOthers ==
    /\ IdleText
    /\ IdleConverter
    /\ IdleTruncater

----------------------------------------------------------------------------
(* The chunker as a state machine: construction, then one _chunk_text call *)

Alphabet == {"a", " ", "."}

Texts == UNION {[1..n -> Alphabet] : n \in 0..MaxLen}

\* "one two three four five"
ExampleText ==
    <<"o", "n", "e", " ", "t", "w", "o", " ", "t", "h", "r", "e", "e", " ",
      "f", "o", "u", "r", " ", "f", "i", "v", "e">>

ExampleChunkSize == 10

\* "aa a a": three fragments of which the last two fit one chunk of size 2
GreedyText == <<"a", "a", " ", "a", " ", "a">>

AB == <<"a", "|", "b">>

SeparatorLists ==
    { <<SP>>, <<DOT, SP>>, <<SENTENCE, SP>>, <<AB>>, <<<<"a">>, SP>>,
      <<<<"e">>, SENTENCE>>, <<<<"e">>>> }

\* the (chunk_size, chunk_overlap) arguments tried, valid and invalid
SizeArgs ==
    (((-1)..MaxChunkSize) \X ((-1)..MaxChunkSize)) \cup {<<ExampleChunkSize, 0>>}

\* no chunker constructed yet
IdleChunker ==
    /\ chunker = "new"
    /\ chunk_size = 0
    /\ chunk_overlap = 0
    /\ separators = <<>>
    /\ keep_separator = FALSE
    /\ is_separator_regex = FALSE
    /\ nltk_tokenizer = FALSE
    /\ text = <<>>
    /\ result = NotCalled

InitChunker ==
    /\ IdleChunker
    /\ IdleRows
    /\ IdleDocs
    /\ IdleOthers

\* RecursiveChunker.__init__
Construct(size, overlap, seps, keep, regex) ==
    /\ chunker = "new"
    /\ chunk_size' = size
    /\ chunk_overlap' = overlap
    /\ separators' = seps
    /\ keep_separator' = keep
    /\ is_separator_regex' = regex
    /\ IF check_params_fails(size, overlap)
       THEN /\ chunker' = "ValueError"
            /\ nltk_tokenizer' = FALSE
       ELSE /\ chunker' = "ready"
            /\ nltk_tokenizer' = (\E k \in 1..Len(seps) : seps[k] = SENTENCE)
    /\ UNCHANGED <<text, result>>
    /\ UNCHANGED <<rowsVars, docVars, textVars, converterVars, truncaterVars>>

\* a call of _chunk_text on the constructed chunker
ChunkTextCall(t) ==
    /\ chunker = "ready"
    /\ result = NotCalled
    /\ text' = t
    /\ result' = chunk_text(t, {})
    /\ UNCHANGED <<chunker, chunk_size, chunk_overlap, separators, keep_separator,
                   is_separator_regex, nltk_tokenizer>>
    /\ UNCHANGED <<rowsVars, docVars, textVars, converterVars, truncaterVars>>

NextChunker ==
    \/ /\ chunker = "new"
       /\ \E args \in SizeArgs, seps \in SeparatorLists,
             keep \in BOOLEAN, regex \in BOOLEAN :
             Construct(args[1], args[2], seps, keep, regex)
    \/ /\ chunker = "ready" /\ result = NotCalled
       /\ \E t \in Texts \cup {ExampleText, GreedyText} : ChunkTextCall(t)

SpecChunker == InitChunker /\ [][NextChunker]_vars

called == chunker = "ready" /\ result # NotCalled
returns == called /\ result.err = ""

----------------------------------------------------------------------------
(* Properties of _chunk_text *)

RECURSIVE total_len(_)
total_len(strs) ==
    IF strs = <<>> THEN 0 ELSE Len(Head(strs)) + total_len(Tail(strs))

\* s[-k:]
last_chars(s, k) == str_from(s, Max(0, Len(s) - k))

\* C1: with chunk_overlap = 0 every returned chunk has length <= chunk_size
C1_SizeBound ==
    (returns /\ chunk_overlap = 0) =>
        \A i \in 1..Len(result.chunks) : Len(result.chunks[i].out) <= chunk_size

\* "aaa ." with chunk_size 2: the fragment "aaa " is oversized, the recursive
\* call on it ends in the fixed-width fallback
C1_Witness ==
    /\ returns /\ chunk_overlap = 0 /\ chunk_size = 2
    /\ separators = <<SP>> /\ keep_separator /\ ~is_separator_regex
    /\ text = <<"a", "a", "a", " ", ".">>
    /\ returned(result) = << <<"a", "a">>, <<"a", " ">>, <<".", " ">> >>

\* C2: with chunk_overlap = k > 0 the first chunk has no overlap prefix and
\* every later chunk begins with the last k characters of the pre-overlap
\* content of the chunk before it
C2_OverlapPrefix ==
    (returns /\ chunk_overlap > 0) =>
        /\ Len(result.chunks) > 0 => result.chunks[1].out = result.chunks[1].pre
        /\ \A i \in 2..Len(result.chunks) :
              startswith_at(result.chunks[i].out,
                            last_chars(result.chunks[i - 1].pre, chunk_overlap), 1)

\* C3: a text with len(text) <= chunk_size comes back as [text]
C3_BaseCase ==
    (called /\ Len(text) <= chunk_size) =>
        /\ result.err = ""
        /\ returned(result) = <<text>>

\* a text of exactly chunk_size characters that contains the first separator,
\* on a chunker with overlap
C3_Witness ==
    /\ called /\ Len(text) = chunk_size /\ chunk_overlap > 0
    /\ is_substring(separators[1], text) /\ strip_nonempty(text)
    /\ returned(result) = <<text>>

\* C4: with chunk_overlap = 0 and keep_separator = True the chunks are each
\* <= chunk_size long and their lengths sum to the length of the text; the
\* example text gives ["one two ", "three ", "four five"]
C4_NoCharAddedOrLost ==
    (returns /\ chunk_overlap = 0 /\ keep_separator) =>
        /\ \A i \in 1..Len(result.chunks) : Len(result.chunks[i].out) <= chunk_size
        /\ total_len(returned(result)) = Len(text)
        /\ (text = ExampleText /\ chunk_size = ExampleChunkSize /\ separators = <<SP>>)
              => returned(result) = << SubSeq(ExampleText, 1, 8),
                                       SubSeq(ExampleText, 9, 14),
                                       SubSeq(ExampleText, 15, 23) >>

\* C5: every call of _chunk_text terminates (no call recurses without end)
C5_Terminates == called => result.err # "RecursionError"

----------------------------------------------------------------------------
(* Row clustering as a state machine: an analysis result, then one call *)

Xs == 0..1
Ys == 0..MaxY
ThresholdsY == 0..2

Polygons == {<<>>} \cup (Xs \X Ys)
Objects == [polygon : Polygons]

ObjectLists == UNION {[1..n -> Objects] : n \in 0..MaxObjects}

InitRows ==
    /\ IdleChunker
    /\ IdleDocs
    /\ IdleOthers
    /\ objects_by_page \in [Pages -> ObjectLists]
    /\ Len(objects_by_page[1]) + Len(objects_by_page[2]) <= MaxObjects
    /\ threshold_y \in ThresholdsY
    /\ rows_of_objects = RowsNotComputed

GetRowsCall ==
    /\ rows_of_objects = RowsNotComputed
    /\ rows_of_objects' = get_rows_of_objects_by_page(objects_by_page, threshold_y)
    /\ UNCHANGED <<objects_by_page, threshold_y>>
    /\ UNCHANGED <<chunkerVars, docVars, textVars, converterVars, truncaterVars>>

NextRows == GetRowsCall

SpecRows == InitRows /\ [][NextRows]_vars

rows_returned == rows_of_objects.err = ""

\* objects i and j of page pn are in one row of the result
same_row(pn, i, j) ==
    \E r \in 1..Len(rows_of_objects.rows[pn]) :
        LET row == rows_of_objects.rows[pn][r] IN
        /\ \E k \in 1..Len(row) : row[k] = i
        /\ \E k \in 1..Len(row) : row[k] = j

\* a chain of objects of page pn, each within threshold_y of the next, links
\* object i to object j
chained(pn, i, j) ==
    LET objects == objects_by_page[pn]
        n == Len(objects)
    IN  \E m \in 1..n : \E path \in [1..m -> 1..n] :
            /\ path[1] = i
            /\ path[m] = j
            /\ \A k \in 1..(m - 1) :
                  Abs(objects[path[k]].polygon[2] - objects[path[k + 1]].polygon[2])
                      < threshold_y

\* C6: two objects of a page share a row exactly if a chain of pairwise
\* close objects links them (rows are the connected components of closeness)
C6_RowsAreComponents ==
    rows_returned =>
        \A pn \in Pages : \A i, j \in 1..Len(objects_by_page[pn]) :
            same_row(pn, i, j) <=> chained(pn, i, j)

\* A, B, C with yA = 0, yB = 1, yC = 2 and threshold_y = 2 in one row of three
C6_Witness ==
    /\ rows_returned
    /\ threshold_y = 2
    /\ Len(objects_by_page[1]) = 3
    /\ objects_by_page[1][1].polygon[2] = 0
    /\ objects_by_page[1][2].polygon[2] = 1
    /\ objects_by_page[1][3].polygon[2] = 2
    /\ Len(rows_of_objects.rows[1]) = 1
    /\ Len(rows_of_objects.rows[1][1]) = 3

----------------------------------------------------------------------------
(* Documents as a state machine: two constructions and a comparison *)

Contents == {None, Some(<<>>), Some(STR_NONE)}
Blobs == {None, Some([data |-> <<"a">>, mime_type |-> None])}
MetaDicts ==
    { <<>>,
      << <<"id", <<"m">>>> >>,
      << <<"a", <<"1">>>>, <<"b", <<"2">>>> >>,
      << <<"b", <<"2">>>>, <<"a", <<"1">>>> >> }
Scores == {None, Some(1)}
Embeddings == {None, Some(<<1>>)}
SparseEmbeddings == {None, Some([indices |-> <<0>>, values |-> <<1>>])}
Ids == {<<>>, <<"1">>}

\* self and other of __eq__
Operands == 2

InitDocument ==
    /\ IdleChunker
    /\ IdleRows
    /\ IdleDocs
    /\ IdleOthers

\* Document(id=..., content=..., blob=..., meta=..., score=..., embedding=...,
\* sparse_embedding=...) with a dict of its own
NewDocument(id, content, blob, meta, score, embedding, sparse_embedding) ==
    /\ LET heap == Append(metas, meta) IN
       /\ metas' = heap
       /\ docs' = Append(docs, new_document(id, content, blob, Len(heap), score,
                                            embedding, sparse_embedding, heap))
    /\ UNCHANGED <<compared, run_output>>
    /\ UNCHANGED <<chunkerVars, rowsVars, textVars, converterVars, truncaterVars>>

\* docs[1] == docs[2]
CompareDocuments ==
    /\ Len(docs) = Operands
    /\ compared = NotCompared
    /\ compared' = [left |-> 1, right |-> 2, other_type |-> "Document",
                    result |-> document_eq(docs[1], [type |-> "Document", doc |-> docs[2]],
                                           metas)]
    /\ UNCHANGED <<docs, metas, run_output>>
    /\ UNCHANGED <<chunkerVars, rowsVars, textVars, converterVars, truncaterVars>>

\* docs[1] == other, for a value that is not a Document (a str, or the dict
\* that to_dict returns)
CompareWithOther(type) ==
    /\ Len(docs) = 1
    /\ compared = NotCompared
    /\ compared' = [left |-> 1, right |-> 0, other_type |-> type,
                    result |-> document_eq(docs[1], [type |-> type, doc |-> docs[1]],
                                           metas)]
    /\ UNCHANGED <<docs, metas, run_output>>
    /\ UNCHANGED <<chunkerVars, rowsVars, textVars, converterVars, truncaterVars>>

NextDocument ==
    \/ /\ Len(docs) < Operands /\ compared = NotCompared
       /\ \E id \in Ids, content \in Contents, blob \in Blobs, meta \in MetaDicts,
             score \in Scores, embedding \in Embeddings,
             sparse_embedding \in SparseEmbeddings :
             NewDocument(id, content, blob, meta, score, embedding, sparse_embedding)
    \/ CompareDocuments
    \/ \E type \in {"str", "dict"} : CompareWithOther(type)

SpecDocument == InitDocument /\ [][NextDocument]_vars

\* the dict as a mapping, without the order of its items
dict_as_map(d) == [k \in dict_keys(d) |-> dict_get(d, k)]

meta_of(i) == metas[docs[i].meta]

\* the fields that take part in the id and differ between docs[i] and docs[j]
differing_fields(i, j) ==
    {f \in {"content", "blob", "embedding", "sparse_embedding"} : docs[i][f] # docs[j][f]}
    \cup (IF dict_as_map(meta_of(i)) # dict_as_map(meta_of(j)) THEN {"meta"} ELSE {})

C8_OneFieldChangesId ==
    \A i, j \in 1..Len(docs) :
        ( /\ ~docs[i].id_given /\ ~docs[j].id_given
          /\ Cardinality(differing_fields(i, j)) = 1 )
        => docs[i].id # docs[j].id

\* the comparison that was made is Document against Document
compared_documents == compared.other_type = "Document"

\* docs[1] and docs[2] have the same value in every field; meta as a mapping
same_fields_but_id ==
    /\ docs[1].content = docs[2].content
    /\ docs[1].blob = docs[2].blob
    /\ dict_as_map(meta_of(1)) = dict_as_map(meta_of(2))
    /\ docs[1].score = docs[2].score
    /\ docs[1].embedding = docs[2].embedding
    /\ docs[1].sparse_embedding = docs[2].sparse_embedding

\* C10: a Document equals a value exactly if the value is a
\* Document with an equal flattened dictionary; Documents with the same
\* fields are equal, Documents that differ only in id are not equal, and a
\* Document never equals a value that is not a Document
C10_Equality ==
    compared # NotCompared =>
        /\ ~compared_documents => ~compared.result
        /\ compared_documents =>
              /\ compared.result <=> (to_dict(docs[1], metas) = to_dict(docs[2], metas))
              /\ (same_fields_but_id /\ docs[1].id = docs[2].id) => compared.result
              /\ (same_fields_but_id /\ docs[1].id # docs[2].id) => ~compared.result


----------------------------------------------------------------------------
(* RecursiveChunker.run on the Documents that exist *)

RunSizeArgs == {<<0, 0>>, <<1, 0>>, <<2, 0>>, <<2, 1>>}
RunSeparatorLists == {<<SP>>, <<<<"e">>>>}
RunContents ==
    {None, Some(<<>>), Some(<<"a">>), Some(<<"a", " ", "a">>), Some(<<"a", "a", " ">>)}
RunMetaDicts == {<<>>, << <<"a", <<"1">>>> >>}

\* the state of the objects while run executes: the Documents, the dicts,
\* the list new_docs, and the exception raised, if any
RunState(ds, ms, out, err) == [docs |-> ds, metas |-> ms, new_docs |-> out, err |-> err]

\* the loop "for chunk in chunks" of _run_one from chunk k on: the new
\* Document takes the dict of doc as its meta, and original_id is written
\* into that dict after the new Document has got its id
RECURSIVE run_one_from(_, _, _, _)
run_one_from(st, ref, chunks, k) ==
    IF k > Len(chunks) THEN st
    ELSE
      LET doc     == st.docs[ref]
          new_doc == new_document(<<>>, Some(chunks[k]), None, doc.meta, None, None, None,
                                  st.metas)
          heap    == [st.metas EXCEPT ![doc.meta] = dict_set(@, "original_id", doc.id)]
          ds      == Append(st.docs, new_doc)
      IN  run_one_from(RunState(ds, heap, Append(st.new_docs, Len(ds)), ""),
                       ref, chunks, k + 1)

\* _run_one
run_one(st, ref) ==
    LET r == chunk_text(st.docs[ref].content[1], {}) IN
    IF r.err # "" THEN [st EXCEPT !.err = r.err]
    ELSE run_one_from(st, ref, returned(r), 1)

\* a test that skips a Document only when its content is None
is_skipped_none_only(doc) == doc.content = None

\* not doc.content or doc.content == ""
is_skipped(doc) == doc.content = None \/ doc.content = Some(<<>>)

\* the loop "for doc in documents" of run from document k on
RECURSIVE run_from(_, _, _)
run_from(st, documents, k) ==
    IF k > Len(documents) \/ st.err # "" THEN st
    ELSE
      LET doc == st.docs[documents[k]] IN
      IF is_skipped(doc)
      THEN run_from(st, documents, k + 1)
      ELSE run_from(run_one(st, documents[k]), documents, k + 1)

\* RecursiveChunker.run
run(documents) == run_from(RunState(docs, metas, <<>>, ""), documents, 1)

InitRun ==
    /\ IdleChunker
    /\ IdleRows
    /\ IdleDocs
    /\ IdleOthers

\* run(documents) with every Document that exists, in order of creation
RunCall ==
    /\ chunker = "ready"
    /\ run_output = NotRun
    /\ LET st == run([i \in 1..Len(docs) |-> i]) IN
       /\ docs' = st.docs
       /\ metas' = st.metas
       /\ run_output' = [err |-> st.err,
                         documents |-> IF st.err = "" THEN st.new_docs ELSE <<>>]
    /\ UNCHANGED compared
    /\ UNCHANGED <<chunkerVars, rowsVars, textVars, converterVars, truncaterVars>>

NextRun ==
    \/ /\ chunker = "new"
       /\ \E args \in RunSizeArgs, seps \in RunSeparatorLists, keep \in BOOLEAN :
             Construct(args[1], args[2], seps, keep, FALSE)
    \/ /\ Len(docs) < MaxDocs /\ run_output = NotRun
       /\ \E id \in Ids, content \in RunContents, meta \in RunMetaDicts :
             NewDocument(id, content, None, meta, None, None, None)
    \/ RunCall

SpecRun == InitRun /\ [][NextRun]_vars

\* C9: the id of every Document that was constructed without an id is the
\* digest of its current content, blob, meta, embedding and sparse_embedding,
\* in every state, also after run has written original_id
C9_IdIsDigestOfCurrentFields ==
    \A i \in 1..Len(docs) :
        ~docs[i].id_given => docs[i].id = create_id(docs[i], metas)

\* run was called and returned
run_called == run_output # NotRun
run_returned == run_output.err = ""

\* the Documents that were given to a run that returned
run_inputs == Len(docs) - Len(run_output.documents)

\* the chunks of the Documents from k to n that have content, in order
RECURSIVE chunks_in_order(_, _)
chunks_in_order(k, n) ==
    IF k > n THEN <<>>
    ELSE (IF docs[k].content = None \/ docs[k].content[1] = <<>> THEN <<>>
          ELSE returned(chunk_text(docs[k].content[1], {})))
         \o chunks_in_order(k + 1, n)

\* C23: a Document whose content is None or "" never makes run raise and
\* gives no chunk; the Documents run returns are the chunks of the given
\* Documents that have content, in the order of the input, and an
\* exception of run is the exception of _chunk_text on a text
C23_EmptyContentIsSkipped ==
    run_called =>
        /\ run_returned =>
               [k \in 1..Len(run_output.documents) |->
                   docs[run_output.documents[k]].content[1]]
                   = chunks_in_order(1, run_inputs)
        /\ ~run_returned =>
               \E k \in 1..Len(docs) :
                   /\ docs[k].content # None
                   /\ docs[k].content[1] # <<>>
                   /\ chunk_text(docs[k].content[1], {}).err = run_output.err

\* a Document without content, then "" and then "a a" with chunk_size 2:
\* only the chunks of the last one come back
C23_Witness ==
    /\ run_returned
    /\ run_inputs = 2
    /\ docs[1].content = Some(<<>>)
    /\ docs[2].content = Some(<<"a", " ", "a">>)
    /\ Len(run_output.documents) = 2

----------------------------------------------------------------------------
(* Text assembly (azure_ocr_utils.py)                                      *)
(*                                                                         *)
(* A line or paragraph is a record with its content (a str), the offset of *)
(* its first span, the page it belongs to and its polygon; a table is a    *)
(* record with kind "table", its grid and its cells. A dict with page      *)
(* numbers as keys is a function whose DOMAIN is the set of its keys.      *)

NL == "\n"
FF == "\f"
COMMA == ","

\* d.get(k, []) of a dict of lists
dict_get_list(d, k) == IF k \in DOMAIN d THEN d[k] ELSE <<>>

\* sep.join(pieces)
RECURSIVE str_join_with(_, _)
str_join_with(pieces, sep) ==
    IF pieces = <<>> THEN <<>>
    ELSE IF Len(pieces) = 1 THEN pieces[1]
    ELSE pieces[1] \o sep \o str_join_with(Tail(pieces), sep)

\* cell.row_span if cell.row_span else 1 (likewise column_span)
span_or_one(n) == IF n = 0 THEN 1 ELSE n

\* table_list[r][c] after the loop over table.cells (r, c 0-based): the
\* content of the last cell that covers the position, "" if there is none
table_list_entry(table, r, c) ==
    LET covers(k) ==
            LET cell == table.cells[k] IN
            /\ cell.row_index <= r /\ r < cell.row_index + span_or_one(cell.row_span)
            /\ cell.column_index <= c
            /\ c < cell.column_index + span_or_one(cell.column_span)
        covering == {k \in 1..Len(table.cells) : covers(k)}
    IN  IF covering = {} THEN <<>>
        ELSE table.cells[CHOOSE k \in covering : \A m \in covering : m <= k].content

\* get_table_content(table, "csv"): DataFrame(table_list).to_csv(header=False,
\* index=False) for cells that need no quoting
get_table_content(table) ==
    str_join([r \in 1..table.row_count |->
                str_join_with([c \in 1..table.column_count |->
                                 table_list_entry(table, r - 1, c - 1)], <<COMMA>>)
                \o <<NL>>])

\* page_text[:-1]
drop_last(s) == IF s = <<>> THEN s ELSE SubSeq(s, 1, Len(s) - 1)

\* what the loop body adds for one object
object_text(obj) ==
    IF obj.kind = "table" THEN get_table_content(obj) ELSE obj.content

\* a loop body that keeps the space it has added
add_object_keep_space(page_text, obj) == page_text \o object_text(obj) \o SP

\* the body of "for obj in row_of_objects": the content and a space are
\* added, and page_text[:-1] runs for every object
add_object(page_text, obj) == drop_last(page_text \o object_text(obj) \o SP)

\* the loop "for obj in row_of_objects" from object k on
RECURSIVE add_row_from(_, _, _)
add_row_from(page_text, row, k) ==
    IF k > Len(row) THEN page_text
    ELSE add_row_from(add_object(page_text, row[k]), row, k + 1)

\* the loop "for row_of_objects in ..." from row r on
RECURSIVE add_rows_from(_, _, _)
add_rows_from(page_text, rows, r) ==
    IF r > Len(rows) THEN page_text
    ELSE add_rows_from(add_row_from(page_text, rows[r], 1) \o <<NL>>, rows, r + 1)

\* a join of the page texts with nothing between them
join_pages_unseparated(texts) == str_join(texts)

\* "\f".join(texts)
join_pages(texts) == str_join_with(texts, <<FF>>)

\* construct_text_from_rows_of_objects_by_page; pages is the list of the
\* page numbers of result.pages
construct_text_from_rows_of_objects_by_page(rows_of_objects_by_page, pages) ==
    join_pages([k \in 1..Len(pages) |->
                  add_rows_from(<<>>, dict_get_list(rows_of_objects_by_page, pages[k]), 1)])

----------------------------------------------------------------------------
(* construct_text_from_rows_of_objects_by_page as a state machine: the     *)
(* rows and the pages are given, then the function is called once          *)

\* a line or paragraph, as far as the text assembly reads it
TextLine(content) == [kind |-> "line", content |-> content]

\* a table of one row and two columns with the cell "t" in the first column
SmallTable ==
    [kind |-> "table", row_count |-> 1, column_count |-> 2,
     cells |-> <<[row_index |-> 0, column_index |-> 0, row_span |-> 1,
                  column_span |-> 1, content |-> <<"t">>]>>]

TextObjects == {TextLine(<<"A">>), TextLine(<<"B">>), SmallTable}

\* the page numbers of result.pages, in the source's order
TextPageLists == {<<>>, <<1>>, <<2>>, <<1, 2>>, <<2, 1>>, <<1, 2, 3>>}

\* objects placed on pages 1 and 2, each starting a new row or continuing
\* the row of the object before it on its page
PlacedObjects == [obj : TextObjects, page : {1, 2}, new_row : BOOLEAN]
Placements == UNION {[1..n -> PlacedObjects] : n \in 0..MaxRowObjects}

RECURSIVE group_rows(_, _, _)
group_rows(placed, k, rows) ==
    IF k > Len(placed) THEN rows
    ELSE IF rows = <<>> \/ placed[k].new_row
         THEN group_rows(placed, k + 1, Append(rows, <<placed[k].obj>>))
         ELSE group_rows(placed, k + 1,
                         [rows EXCEPT ![Len(rows)] = Append(@, placed[k].obj)])

\* the dict page number -> rows of a placement
rows_by_page_of(placed) ==
    LET on_page(pn) == LET test(e) == e.page = pn IN SelectSeq(placed, test) IN
    [pn \in {placed[k].page : k \in 1..Len(placed)} |-> group_rows(on_page(pn), 1, <<>>)]

InitText ==
    /\ IdleChunker
    /\ IdleRows
    /\ IdleDocs
    /\ IdleConverter
    /\ IdleTruncater
    /\ \E placed \in Placements : text_rows = rows_by_page_of(placed)
    /\ text_pages \in TextPageLists
    /\ all_text = NotAssembled

ConstructTextCall ==
    /\ all_text = NotAssembled
    /\ all_text' = [err |-> "",
                    text |-> construct_text_from_rows_of_objects_by_page(text_rows, text_pages)]
    /\ UNCHANGED <<text_rows, text_pages>>
    /\ UNCHANGED <<chunkerVars, rowsVars, docVars, converterVars, truncaterVars>>

NextText == ConstructTextCall

SpecText == InitText /\ [][NextText]_vars

assembled == all_text.err = ""

\* the number of occurrences of the character c in s
RECURSIVE count_char(_, _)
count_char(s, c) ==
    IF s = <<>> THEN 0
    ELSE (IF Head(s) = c THEN 1 ELSE 0) + count_char(Tail(s), c)

\* s without its spaces
without_spaces(s) == LET not_space(c) == c # " " IN SelectSeq(s, not_space)

\* the contents of the objects of a row, one after the other
row_contents(row) == str_join([k \in 1..Len(row) |-> object_text(row[k])])

\* the rows of a page, each followed by one newline, spacing left aside
page_rows_with_newlines(rows) ==
    str_join([r \in 1..Len(rows) |-> row_contents(rows[r]) \o <<NL>>])

\* C12: the assembled text is, for every page of result.pages in that order,
\* the page's rows each followed by exactly one newline (a page without rows
\* gives the empty string), the page texts joined by exactly one form feed:
\* n pages give n - 1 form feeds, and pages "A" and "B" give "A\n\fB\n"
C12_PagesJoinedByFormFeed ==
    assembled =>
        /\ without_spaces(all_text.text) =
               str_join_with([k \in 1..Len(text_pages) |->
                                 page_rows_with_newlines(
                                     dict_get_list(text_rows, text_pages[k]))],
                             <<FF>>)
        /\ count_char(all_text.text, FF) = Max(0, Len(text_pages) - 1)
        /\ ( /\ text_pages = <<1, 2>>
             /\ text_rows = (1 :> << <<TextLine(<<"A">>)>> >> @@
                             2 :> << <<TextLine(<<"B">>)>> >>) )
           => all_text.text = <<"A", NL, FF, "B", NL>>

\* the two-page example was assembled
C12_Witness ==
    /\ assembled
    /\ text_pages = <<1, 2>>
    /\ 1 \in DOMAIN text_rows /\ 2 \in DOMAIN text_rows
    /\ text_rows[1] = << <<TextLine(<<"A">>)>> >>
    /\ text_rows[2] = << <<TextLine(<<"B">>)>> >>
    /\ all_text.text = <<"A", NL, FF, "B", NL>>

\* C13: a page of one row with two or more lines is rendered as the contents
\* separated by a single space and followed by a newline: ["A", "B"] gives
\* "A B\n"
C13_RowJoinedBySpaces ==
    assembled =>
        \A pn \in DOMAIN text_rows :
            ( /\ text_pages = <<pn>>
              /\ Len(text_rows[pn]) = 1
              /\ Len(text_rows[pn][1]) >= 2
              /\ \A k \in 1..Len(text_rows[pn][1]) : text_rows[pn][1][k].kind = "line" )
            => all_text.text =
                   str_join_with([k \in 1..Len(text_rows[pn][1]) |->
                                     text_rows[pn][1][k].content], SP) \o <<NL>>

----------------------------------------------------------------------------
(* Objects without a polygon in get_rows_of_objects_by_page *)

rows_called == rows_of_objects # RowsNotComputed

\* an object of page pn has no polygon
page_lacks_polygon(pn) ==
    \E i \in 1..Len(objects_by_page[pn]) : ~has_polygon(objects_by_page[pn][i])

\* C18: when an object of a page has no polygon the call still returns, and
\* every object of that page is a row of its own
C18_MissingPolygonIsNotFatal ==
    rows_called =>
        \A pn \in Pages :
            page_lacks_polygon(pn) =>
                /\ rows_returned
                /\ Len(rows_of_objects.rows[pn]) = Len(objects_by_page[pn])
                /\ \A r \in 1..Len(rows_of_objects.rows[pn]) :
                       Len(rows_of_objects.rows[pn][r]) = 1
                /\ \A i \in 1..Len(objects_by_page[pn]) : same_row(pn, i, i)

----------------------------------------------------------------------------
(* Construction of the chunker *)

constructed == chunker # "new"

\* C19: construction raises ValueError exactly if chunk_overlap < 0,
\* chunk_overlap >= chunk_size or chunk_size <= 0; a chunker that was
\* constructed has chunk_size > 0 and 0 <= chunk_overlap < chunk_size
C19_ParamsChecked ==
    constructed =>
        /\ chunker \in {"ready", "ValueError"}
        /\ chunker = "ValueError" <=>
               (chunk_overlap < 0 \/ chunk_overlap >= chunk_size \/ chunk_size <= 0)
        /\ chunker = "ready" =>
               (chunk_size > 0 /\ 0 <= chunk_overlap /\ chunk_overlap < chunk_size)

\* chunk_size = 0 with chunk_overlap = 0 was refused
C19_Witness ==
    /\ chunker = "ValueError"
    /\ chunk_size = 0
    /\ chunk_overlap = 0

----------------------------------------------------------------------------
(* Grouping by page and the tables (azure_ocr_utils.py)                    *)
(*                                                                         *)
(* An AnalyzeResult is a record of pages (each with page_number and        *)
(* lines), paragraphs and tables. A line, paragraph or table carries       *)
(* offset (the offset of spans[0]), a table also length. regions is the    *)
(* list of the page numbers of bounding_regions (empty when there are      *)
(* none), polygon is what get_polygon finds for the object: <<x, y>> of    *)
(* the upper-left corner, or <<>> when there is nothing to subscript.      *)

SetMax(S) == CHOOSE m \in S : \A n \in S : n <= m

\* d[k].append(v) on a defaultdict(list)
dict_append(d, k, v) ==
    IF k \in DOMAIN d THEN [d EXCEPT ![k] = Append(@, v)]
    ELSE [q \in DOMAIN d \cup {k} |-> IF q = k THEN <<v>> ELSE d[q]]

\* page_numbers[0]: the first bounding region, or the highest page grouped
\* so far, or 1
first_page_number(obj, by_page) ==
    IF obj.regions # <<>> THEN obj.regions[1]
    ELSE IF DOMAIN by_page = {} THEN 1
    ELSE SetMax(DOMAIN by_page)

\* the loop of get_tables_per_page and get_paragraphs_per_page from object
\* k on
RECURSIVE group_by_page_from(_, _, _)
group_by_page_from(objs, k, by_page) ==
    IF k > Len(objs) THEN by_page
    ELSE group_by_page_from(objs, k + 1,
                            dict_append(by_page, first_page_number(objs[k], by_page),
                                        objs[k]))

get_tables_per_page(analyze_result) == group_by_page_from(analyze_result.tables, 1, <<>>)

get_paragraphs_per_page(analyze_result) == group_by_page_from(analyze_result.paragraphs, 1, <<>>)

\* lines_by_page[page.page_number] = lines, for the pages in order
get_lines_per_page(analyze_result) ==
    [pn \in {analyze_result.pages[k].page_number : k \in 1..Len(analyze_result.pages)} |->
        LET last == SetMax({k \in 1..Len(analyze_result.pages) :
                              analyze_result.pages[k].page_number = pn})
        IN  analyze_result.pages[last].lines]

\* a containment test that leaves the end of the span out
in_table_span_exclusive(table, obj) ==
    table.offset <= obj.offset /\ obj.offset < table.offset + table.length

\* table_span.offset <= offset <= table_span.offset + table_span.length
in_table_span(table, obj) ==
    table.offset <= obj.offset /\ obj.offset <= table.offset + table.length

check_if_in_table(tables_on_page, line_or_paragraph) ==
    \E t \in 1..Len(tables_on_page) : in_table_span(tables_on_page[t], line_or_paragraph)

\* the result has a key only for a page that keeps an object
remove_objects_contained_within_tables(objs_by_page, tables_by_page) ==
    LET kept(pn) ==
            LET outside(obj) == ~check_if_in_table(dict_get_list(tables_by_page, pn), obj)
            IN  SelectSeq(objs_by_page[pn], outside)
    IN  [pn \in {q \in DOMAIN objs_by_page : kept(q) # <<>>} |-> kept(pn)]

insert_tables_into_objects_by_page(objs_by_page, tables_by_page) ==
    [pn \in DOMAIN objs_by_page |-> objs_by_page[pn] \o dict_get_list(tables_by_page, pn)]

\* the objects that go into the rows: without those inside tables when the
\* tables are extracted separately, with the tables in their place when
\* they are not and the format is csv, untouched otherwise
merge_tables(objs_by_page, tables_by_page, extract, format) ==
    IF extract
    THEN remove_objects_contained_within_tables(objs_by_page, tables_by_page)
    ELSE IF format = "csv"
    THEN insert_tables_into_objects_by_page(
             remove_objects_contained_within_tables(objs_by_page, tables_by_page),
             tables_by_page)
    ELSE objs_by_page

----------------------------------------------------------------------------
(* AzureOCRDocumentConverter (azure.py): _convert_tables_and_text          *)
(*                                                                         *)
(* The outcome of a step is a record with err ("" when it returned). A     *)
(* Document to be created is described by its content and the items of its *)
(* meta.                                                                   *)

\* preceding_context_len and following_context_len, at their defaults
PrecedingContextLen == 3
FollowingContextLen == 3

\* threshold_y = 0.05 in the unit of the coordinates
DefaultThresholdY == 1

\* what __init__ leaves in self.threshold_y
init_threshold_y(layout, threshold_arg) ==
    IF layout = "single_column" /\ threshold_arg = None
    THEN Some(DefaultThresholdY)
    ELSE threshold_arg

\* the ValueError of __init__
init_fails(extract, format) == extract /\ format = "text"

\* abs(...) < threshold_y is evaluated with threshold_y = None: a page has
\* two objects and all its objects have polygons
compares_with_none(objs_by_page) ==
    \E pn \in DOMAIN objs_by_page :
        /\ Len(objs_by_page[pn]) >= 2
        /\ \A i \in 1..Len(objs_by_page[pn]) : has_polygon(objs_by_page[pn][i])

\* get_rows_of_objects_by_page for a dict of objects and the threshold_y the
\* converter holds: the rows as lists of objects
rows_of_objects_by_page_of(objs_by_page, threshold_opt) ==
    IF threshold_opt = None /\ compares_with_none(objs_by_page)
    THEN [err |-> "TypeError", rows |-> <<>>]
    ELSE
      LET total == [pn \in Pages |-> dict_get_list(objs_by_page, pn)]
          r     == get_rows_of_objects_by_page(
                       total, IF threshold_opt = None THEN 0 ELSE threshold_opt[1])
      IN  IF r.err # "" THEN [err |-> r.err, rows |-> <<>>]
          ELSE [err |-> "",
                rows |-> [pn \in DOMAIN objs_by_page |->
                            [k \in 1..Len(r.rows[pn]) |->
                               [i \in 1..Len(r.rows[pn][k]) |->
                                  objs_by_page[pn][r.rows[pn][k][i]]]]]]

page_numbers(analyze_result) ==
    [k \in 1..Len(analyze_result.pages) |-> analyze_result.pages[k].page_number]

\* _extract_text_doc_with_single_column_ordering: the text of the Document
extract_text_with_single_column_ordering(analyze_result, object_type, threshold_opt, extract, format) ==
    LET tables_by_page == get_tables_per_page(analyze_result)
        objs_by_page   == IF object_type = "line" THEN get_lines_per_page(analyze_result)
                          ELSE get_paragraphs_per_page(analyze_result)
        merged         == merge_tables(objs_by_page, tables_by_page, extract, format)
        r              == rows_of_objects_by_page_of(merged, threshold_opt)
    IN  IF r.err # "" THEN [err |-> r.err, text |-> <<>>]
        ELSE [err |-> "",
              text |-> construct_text_from_rows_of_objects_by_page(
                           r.rows, page_numbers(analyze_result))]

\* _extract_text_doc_with_natural_ordering: every paragraph a row of its
\* own, by ascending offset
extract_text_with_natural_ordering(analyze_result, extract, format) ==
    LET tables_by_page == get_tables_per_page(analyze_result)
        merged == merge_tables(get_paragraphs_per_page(analyze_result), tables_by_page,
                               extract, format)
        rows(pn) == LET objs   == dict_get_list(merged, pn)
                        sorted == py_sorted(objs, [k \in 1..Len(objs) |-> objs[k].offset])
                    IN  [k \in 1..Len(sorted) |-> <<sorted[k]>>]
        pns == page_numbers(analyze_result)
    IN  [err |-> "",
         text |-> construct_text_from_rows_of_objects_by_page(
                      [pn \in {pns[k] : k \in 1..Len(pns)} |-> rows(pn)], pns)]

\* seq[-n:] and seq[:n]
last_n(seq, n) == IF n = 0 THEN seq ELSE SubSeq(seq, Max(1, Len(seq) - n + 1), Len(seq))
first_n(seq, n) == SubSeq(seq, 1, Min(n, Len(seq)))

\* the lines of the page with the given number, <<>> if there is no such
\* page (the tables of the analysis results lie on pages that exist)
lines_of_page(analyze_result, pn) ==
    LET ks == {k \in 1..Len(analyze_result.pages) :
                 analyze_result.pages[k].page_number = pn}
    IN  IF ks = {} THEN <<>> ELSE analyze_result.pages[SetMin(ks)].lines

\* the contents of the lines that satisfy a test on their offset
contents_before(lines, offset) ==
    LET before(l) == l.offset < offset
        sel == SelectSeq(lines, before)
    IN  [k \in 1..Len(sel) |-> sel[k].content]

contents_after(lines, offset) ==
    LET after(l) == l.offset > offset
        sel == SelectSeq(lines, after)
    IN  [k \in 1..Len(sel) |-> sel[k].content]

\* the Document of one table in _extract_table_documents
table_document(analyze_result, table, meta, preceding_len, following_len) ==
    LET preceding_lines ==
            IF table.regions = <<>> THEN <<>>
            ELSE contents_before(lines_of_page(analyze_result, table.regions[1]),
                                 table.offset)
        following_lines ==
            IF table.regions = <<>> THEN <<>>
            ELSE contents_after(
                     lines_of_page(analyze_result, table.regions[Len(table.regions)]),
                     table.offset + table.length)
        preceding_context ==
            str_strip(str_join_with(last_n(preceding_lines, preceding_len), <<NL>>))
        following_context ==
            str_join_with(first_n(following_lines, following_len), <<NL>>)
        with_context == dict_set(dict_set(meta, "preceding_context", preceding_context),
                                 "following_context", following_context)
    IN  [content |-> get_table_content(table),
         meta |-> IF table.regions = <<>> THEN with_context
                  ELSE dict_set(with_context, "page", PyInt(table.regions[1])),
         page |-> IF table.regions = <<>> THEN 0 ELSE table.regions[1]]

\* _extract_table_documents: the Documents of the tables, sorted by page
extract_table_documents(analyze_result, meta, preceding_len, following_len) ==
    LET made == [t \in 1..Len(analyze_result.tables) |->
                   table_document(analyze_result, analyze_result.tables[t], meta,
                                  preceding_len, following_len)]
    IN  py_sorted(made, [t \in 1..Len(made) |-> made[t].page])

\* _convert_tables_and_text on a converter with the given attributes: the
\* Documents of the tables, then the Document of the text
convert_tables_and_text(layout, threshold_opt, extract, format, preceding_len, following_len, analyze_result, meta) ==
    LET tables == IF extract
                  THEN extract_table_documents(analyze_result, meta, preceding_len,
                                               following_len)
                  ELSE <<>>
        text_doc == IF layout = "natural"
                    THEN extract_text_with_natural_ordering(analyze_result, extract, format)
                    ELSE IF layout \in {"single_column_by_line", "single_column"}
                    THEN extract_text_with_single_column_ordering(
                             analyze_result, "line", threshold_opt, extract, format)
                    ELSE extract_text_with_single_column_ordering(
                             analyze_result, "paragraph", threshold_opt, extract, format)
    IN  IF text_doc.err # "" THEN [err |-> text_doc.err, documents |-> <<>>]
        ELSE [err |-> "",
              documents |-> [t \in 1..Len(tables) |->
                               [content |-> tables[t].content, meta |-> tables[t].meta]]
                            \o <<[content |-> text_doc.text, meta |-> meta]>>]

----------------------------------------------------------------------------
(* The converter as a state machine: an analysis result is given, the      *)
(* converter is constructed and _convert_tables_and_text is called once    *)

Letters == <<"a", "b", "c", "d">>

Offsets == 0..2

ObjectPolygons == {<<>>, <<0, 0>>, <<0, 2>>}

\* where an object of the analysis result is found: in the lines of page 1
\* or 2, or in the paragraphs with a bounding region on page 1 or 2 or with
\* no bounding region
ObjectPlaces == {"line 1", "line 2", "paragraph 1", "paragraph 2", "paragraph"}

ObjectSpecs == [place : ObjectPlaces, polygon : ObjectPolygons, offset : Offsets]

\* the objects of an analysis result, by ascending offset
ObjectSpecLists ==
    UNION {{l \in [1..n -> ObjectSpecs] :
              \A k \in 1..(n - 1) : l[k].offset < l[k + 1].offset} :
           n \in 0..MaxTextObjects}

TableRegions == {<<>>, <<1>>, <<2>>, <<1, 2>>}
TableLengths == {0, 1}
TableOffsets == {1}

\* a table of one row and two columns with the cell "t" in the first column
AnalysisTable(regions, offset, length) ==
    [kind |-> "table", offset |-> offset, length |-> length, regions |-> regions,
     polygon |-> IF regions = <<>> THEN <<>> ELSE <<0, 1>>,
     row_count |-> 1, column_count |-> 2,
     cells |-> <<[row_index |-> 0, column_index |-> 0, row_span |-> 1,
                  column_span |-> 1, content |-> <<"t">>]>>]

AnalysisTables == {AnalysisTable(r, o, l) : r \in TableRegions, o \in TableOffsets,
                                            l \in TableLengths}

TableLists == UNION {[1..n -> AnalysisTables] : n \in 0..MaxTables}

\* the k-th object: its content is the k-th letter
analysis_object(specs, k) ==
    LET sp == specs[k]
        on_line == sp.place \in {"line 1", "line 2"}
    IN  [kind |-> IF on_line THEN "line" ELSE "paragraph",
         content |-> <<Letters[k]>>,
         offset |-> sp.offset,
         polygon |-> IF sp.place = "paragraph" THEN <<>> ELSE sp.polygon,
         regions |-> IF sp.place = "paragraph 1" THEN <<1>>
                     ELSE IF sp.place = "paragraph 2" THEN <<2>>
                     ELSE <<>>]

\* the AnalyzeResult with pages 1 and 2, the objects and the tables
make_analysis(specs, tables) ==
    LET objs == [k \in 1..Len(specs) |-> [obj |-> analysis_object(specs, k),
                                           place |-> specs[k].place]]
        at(place) == LET test(e) == e.place = place
                         sel == SelectSeq(objs, test)
                     IN  [k \in 1..Len(sel) |-> sel[k].obj]
        is_paragraph(e) == e.obj.kind = "paragraph"
        pars == SelectSeq(objs, is_paragraph)
    IN  [pages |-> <<[page_number |-> 1, lines |-> at("line 1")],
                     [page_number |-> 2, lines |-> at("line 2")]>>,
         paragraphs |-> [k \in 1..Len(pars) |-> pars[k].obj],
         tables |-> tables]

PageLayouts == {"natural", "single_column_by_line", "single_column_by_paragraph",
                "single_column"}
ThresholdArgs == {None, Some(DefaultThresholdY)}
TableFormats == {"csv", "text"}

InitConvert ==
    /\ IdleChunker
    /\ IdleRows
    /\ IdleDocs
    /\ IdleText
    /\ IdleTruncater
    /\ converter = "new"
    /\ page_layout = "natural"
    /\ converter_threshold_y = None
    /\ table_format = "csv"
    /\ extract_tables_separately = TRUE
    /\ preceding_context_len = 0
    /\ following_context_len = 0
    /\ \E specs \in ObjectSpecLists, tables \in TableLists :
          analysis = make_analysis(specs, tables)
    /\ converted = NotConverted

\* AzureOCRDocumentConverter.__init__
ConstructConverter(layout, threshold_arg, format, extract, preceding_len, following_len) ==
    /\ converter = "new"
    /\ preceding_context_len' = preceding_len
    /\ following_context_len' = following_len
    /\ page_layout' = layout
    /\ converter_threshold_y' = init_threshold_y(layout, threshold_arg)
    /\ table_format' = format
    /\ extract_tables_separately' = extract
    /\ converter' = IF init_fails(extract, format) THEN "ValueError" ELSE "ready"
    /\ UNCHANGED <<analysis, converted>>
    /\ UNCHANGED <<chunkerVars, rowsVars, docVars, textVars, truncaterVars>>

\* the Documents described from description k on are created: a table
\* Document gets a dict of its own, the text Document the dict meta_ref
\* that was passed in
RECURSIVE create_documents_from(_, _, _, _)
create_documents_from(described, k, meta_ref, st) ==
    IF k > Len(described) THEN st
    ELSE
      LET own  == k < Len(described)
          heap == IF own THEN Append(st.metas, described[k].meta) ELSE st.metas
          ref  == IF own THEN Len(heap) ELSE meta_ref
          doc  == new_document(<<>>, Some(described[k].content), None, ref, None, None,
                               None, heap)
          ds   == Append(st.docs, doc)
      IN  create_documents_from(described, k + 1, meta_ref,
                                RunState(ds, heap, Append(st.new_docs, Len(ds)), ""))

\* _convert_tables_and_text(result=analysis, meta={})
ConvertCall ==
    /\ converter = "ready"
    /\ converted = NotConverted
    /\ LET out  == convert_tables_and_text(page_layout, converter_threshold_y,
                                           extract_tables_separately, table_format,
                                           preceding_context_len, following_context_len,
                                           analysis, <<>>)
           heap == Append(metas, <<>>)
           st   == create_documents_from(out.documents, 1, Len(heap),
                                         RunState(docs, heap, <<>>, ""))
       IN  IF out.err # ""
           THEN /\ converted' = [err |-> out.err, documents |-> <<>>]
                /\ UNCHANGED <<docs, metas>>
           ELSE /\ converted' = [err |-> "", documents |-> st.new_docs]
                /\ docs' = st.docs
                /\ metas' = st.metas
    /\ UNCHANGED <<compared, run_output>>
    /\ UNCHANGED <<converter, page_layout, converter_threshold_y, table_format,
                   extract_tables_separately, preceding_context_len,
                   following_context_len, analysis>>
    /\ UNCHANGED <<chunkerVars, rowsVars, textVars, truncaterVars>>

NextConvert ==
    \/ /\ converter = "new"
       /\ \E layout \in PageLayouts, threshold_arg \in ThresholdArgs,
             format \in TableFormats, extract \in BOOLEAN :
             ConstructConverter(layout, threshold_arg, format, extract,
                                PrecedingContextLen, FollowingContextLen)
    \/ ConvertCall

SpecConvert == InitConvert /\ [][NextConvert]_vars

conversion_called == converted # NotConverted
conversion_returned == converted.err = ""

\* the content of the text Document, the last one returned
converted_text == docs[converted.documents[Len(converted.documents)]].content[1]

\* the character c occurs in the string s
occurs_in(c, s) == \E i \in 1..Len(s) : s[i] = c

\* the offset lies in the span of the table, both ends included
offset_in_table(obj, table) ==
    table.offset <= obj.offset /\ obj.offset <= table.offset + table.length

\* C11: with extract_tables_separately = True, a line or paragraph of a page
\* that a table touches (any of the table's bounding regions), with its
\* offset in [table offset, table offset + table length], does not appear in
\* the assembled text
C11_ObjectsInTablesRemoved ==
    (conversion_returned /\ extract_tables_separately) =>
        \A t \in 1..Len(analysis.tables) :
            LET table == analysis.tables[t]
                touched == {table.regions[k] : k \in 1..Len(table.regions)}
            IN  /\ \A p \in 1..Len(analysis.pages) :
                       analysis.pages[p].page_number \in touched =>
                           \A l \in 1..Len(analysis.pages[p].lines) :
                               LET line == analysis.pages[p].lines[l] IN
                               offset_in_table(line, table) =>
                                   ~occurs_in(line.content[1], converted_text)
                /\ \A q \in 1..Len(analysis.paragraphs) :
                       LET paragraph == analysis.paragraphs[q] IN
                       ( /\ paragraph.regions # <<>>
                         /\ paragraph.regions[1] \in touched
                         /\ offset_in_table(paragraph, table) )
                       => ~occurs_in(paragraph.content[1], converted_text)

\* the outcome of a conversion as it can be compared: the error, or the
\* contents and metas of the Documents
described_outcome ==
    [err |-> converted.err,
     documents |-> [k \in 1..Len(converted.documents) |->
                      [content |-> docs[converted.documents[k]].content[1],
                       meta |-> metas[docs[converted.documents[k]].meta]]]]

\* C20: a converter constructed with page_layout = "single_column_by_line"
\* gives the outcome that a converter constructed with "single_column" and
\* the same other arguments (threshold_y = None among them) gives for the
\* same analysis result
C20_SingleColumnIsByLine ==
    (conversion_called /\ page_layout = "single_column_by_line") =>
        described_outcome =
            convert_tables_and_text("single_column",
                                    init_threshold_y("single_column", converter_threshold_y),
                                    extract_tables_separately, table_format,
                                    preceding_context_len, following_context_len,
                                    analysis, <<>>)

----------------------------------------------------------------------------
(* DocumentTokenTruncater with the tokenizer of its tests: a token is a    *)
(* word, the words are joined by one space                                 *)

\* MockTokenizer.encode: text.split()
RECURSIVE tokens_from(_, _, _)
tokens_from(s, i, cur) ==
    IF i > Len(s) THEN (IF cur = <<>> THEN <<>> ELSE <<cur>>)
    ELSE IF s[i] \in Whitespace
         THEN (IF cur = <<>> THEN <<>> ELSE <<cur>>) \o tokens_from(s, i + 1, <<>>)
         ELSE tokens_from(s, i + 1, Append(cur, s[i]))

tokenizer_encode(s) == tokens_from(s, 1, <<>>)

\* MockTokenizer.decode: " ".join(tokens)
tokenizer_decode(tokens) == str_join_with(tokens, SP)

TruncationStrategy == {"beginning", "end", "equal"}

get_token_len(s) == Len(tokenizer_encode(s))

\* _truncate_text(text, max_tokens) under the given strategy
truncate_text(s, max_tokens, strat) ==
    IF get_token_len(s) <= max_tokens THEN [err |-> "", text |-> s]
    ELSE IF strat = "end"
    THEN [err |-> "", text |-> tokenizer_decode(first_n(tokenizer_encode(s), max_tokens))]
    ELSE IF strat = "beginning"
    THEN [err |-> "", text |-> tokenizer_decode(last_n(tokenizer_encode(s), max_tokens))]
    ELSE [err |-> "ValueError", text |-> <<>>]

\* bool(doc.content)
has_content(doc) == doc.content # None /\ doc.content[1] # <<>>

\* sum(self._get_token_len(doc.content) for doc in documents if doc.content)
\* over the documents from k on
RECURSIVE total_tokens_from(_, _, _)
total_tokens_from(ds, refs, k) ==
    IF k > Len(refs) THEN 0
    ELSE (IF has_content(ds[refs[k]]) THEN get_token_len(ds[refs[k]].content[1]) ELSE 0)
         + total_tokens_from(ds, refs, k + 1)

\* sum(1 for doc in documents if doc.content)
docs_with_content(ds, refs) == Cardinality({k \in 1..Len(refs) : has_content(ds[refs[k]])})

\* Document(content=..., meta={**doc.meta, "truncated": True}) is added to
\* the state; an error of _truncate_text ends the call
truncated_document(st, ref, max_tokens, strat) ==
    LET doc  == st.docs[ref]
        cut  == truncate_text(doc.content[1], max_tokens, strat)
        heap == Append(st.metas, dict_set(st.metas[doc.meta], "truncated", PyTrue))
        ds   == Append(st.docs, new_document(<<>>, Some(cut.text), None, Len(heap), None,
                                             None, None, heap))
    IN  IF cut.err # "" THEN RunState(st.docs, st.metas, st.new_docs, cut.err)
        ELSE RunState(ds, heap, Append(st.new_docs, Len(ds)), "")

\* the loop of the equal strategy from document k on
RECURSIVE truncate_equal_from(_, _, _, _)
truncate_equal_from(st, refs, k, tokens_per_doc) ==
    IF k > Len(refs) \/ st.err # "" THEN st
    ELSE IF ~has_content(st.docs[refs[k]])
    THEN truncate_equal_from(RunState(st.docs, st.metas, Append(st.new_docs, refs[k]), ""),
                             refs, k + 1, tokens_per_doc)
    ELSE truncate_equal_from(truncated_document(st, refs[k], tokens_per_doc, "equal"),
                             refs, k + 1, tokens_per_doc)

\* the loop of the beginning and end strategies from document k on
RECURSIVE truncate_each_from(_, _, _, _, _, _)
truncate_each_from(st, refs, k, current_tokens, available_tokens, strat) ==
    IF k > Len(refs) THEN st
    ELSE
      LET doc  == st.docs[refs[k]]
          kept == RunState(st.docs, st.metas, Append(st.new_docs, refs[k]), "")
      IN  IF ~has_content(doc)
          THEN truncate_each_from(kept, refs, k + 1, current_tokens, available_tokens, strat)
          ELSE
            LET doc_tokens == get_token_len(doc.content[1]) IN
            IF current_tokens + doc_tokens <= available_tokens
            THEN truncate_each_from(kept, refs, k + 1, current_tokens + doc_tokens,
                                    available_tokens, strat)
            ELSE IF available_tokens - current_tokens <= 0 THEN st
            ELSE truncated_document(st, refs[k], available_tokens - current_tokens, strat)

\* DocumentTokenTruncater.run(documents): the outcome and the state after it
truncater_run(ds, ms, refs, max_len, reserve_len, strat) ==
    LET st0 == RunState(ds, ms, <<>>, "")
        available_tokens == max_len - reserve_len
        total_tokens == total_tokens_from(ds, refs, 1)
    IN  IF refs = <<>> THEN st0
        ELSE IF available_tokens <= 0 THEN RunState(ds, ms, <<>>, "ValueError")
        ELSE IF strat = "equal" /\ total_tokens > available_tokens
        THEN truncate_equal_from(st0, refs, 1,
                                 available_tokens \div docs_with_content(ds, refs))
        ELSE truncate_each_from(st0, refs, 1, 0, available_tokens, strat)

----------------------------------------------------------------------------
(* The truncater as a state machine: construction, the Documents, one run  *)

\* "six seven eight"
SecondExampleText ==
    <<"s", "i", "x", " ", "s", "e", "v", "e", "n", " ", "e", "i", "g", "h", "t">>

TruncaterContents ==
    {None, Some(<<>>), Some(SP), Some(<<"a">>), Some(<<"a", " ", "b">>),
     Some(<<"a", " ", " ", "b", " ", "c">>), Some(ExampleText), Some(SecondExampleText)}

TruncaterMetaDicts == { <<>>, << <<"a", <<"1">>>> >> }

StrategyArgs == TruncationStrategy \cup {"invalid"}

InitTruncater ==
    /\ IdleChunker
    /\ IdleRows
    /\ IdleDocs
    /\ IdleOthers

\* DocumentTokenTruncater.__init__
ConstructTruncater(max_len, strat, reserve_len) ==
    /\ truncater = "new"
    /\ max_token_len' = max_len
    /\ IF strat \in TruncationStrategy
       THEN /\ strategy' = strat
            /\ reserve_token_len' = reserve_len
            /\ truncater' = "ready"
       ELSE /\ truncater' = "ValueError"
            /\ UNCHANGED <<strategy, reserve_token_len>>
    /\ UNCHANGED truncated_output
    /\ UNCHANGED <<chunkerVars, rowsVars, docVars, textVars, converterVars>>

\* run(documents) with the Documents created so far, in their order
TruncaterRun ==
    /\ truncater = "ready"
    /\ truncated_output = NotTruncated
    /\ LET st == truncater_run(docs, metas, [k \in 1..Len(docs) |-> k], max_token_len,
                               reserve_token_len, strategy)
       IN  IF st.err # ""
           THEN /\ truncated_output' = [err |-> st.err, given |-> Len(docs),
                                        documents |-> <<>>]
                /\ UNCHANGED <<docs, metas>>
           ELSE /\ truncated_output' = [err |-> "", given |-> Len(docs),
                                        documents |-> st.new_docs]
                /\ docs' = st.docs
                /\ metas' = st.metas
    /\ UNCHANGED <<compared, run_output>>
    /\ UNCHANGED <<truncater, max_token_len, reserve_token_len, strategy>>
    /\ UNCHANGED <<chunkerVars, rowsVars, textVars, converterVars>>

NextTruncater ==
    \/ /\ truncater = "new"
       /\ \E max_len \in 0..MaxTokenLen, strat \in StrategyArgs,
             reserve_len \in 0..MaxReserveTokenLen :
             ConstructTruncater(max_len, strat, reserve_len)
    \/ /\ truncater = "ready" /\ truncated_output = NotTruncated /\ Len(docs) < MaxDocs
       /\ \E content \in TruncaterContents, meta \in TruncaterMetaDicts :
             NewDocument(<<>>, content, None, meta, None, None, None)
    \/ TruncaterRun

SpecTruncater == InitTruncater /\ [][NextTruncater]_vars

truncater_called == truncated_output # NotTruncated
truncater_returned == truncated_output.err = ""

\* the token count of the content of a Document, 0 without content
content_tokens(ref) ==
    IF docs[ref].content = None THEN 0 ELSE get_token_len(docs[ref].content[1])

RECURSIVE sum_tokens(_, _)
sum_tokens(refs, k) ==
    IF k > Len(refs) THEN 0 ELSE content_tokens(refs[k]) + sum_tokens(refs, k + 1)

\* the Documents given to run
given_documents == [k \in 1..truncated_output.given |-> k]

available == max_token_len - reserve_token_len

\* the Document is marked as truncated
marked_truncated(ref) ==
    /\ "truncated" \in dict_keys(metas[docs[ref].meta])
    /\ dict_get(metas[docs[ref].meta], "truncated") = PyTrue

\* the positions of the given Documents that do not fit: the tokens up to
\* and including the Document exceed the budget
not_fitting ==
    {k \in 1..truncated_output.given :
        /\ content_tokens(k) > 0
        /\ sum_tokens(SubSeq(given_documents, 1, k), 1) > available}

\* C14: with the end strategy and more tokens given than available, run
\* returns the Documents before the first one that does not fit unchanged
\* (the same Documents, no "truncated" key) followed by a Document for the
\* first one that does not fit, marked meta["truncated"] = True; this also
\* when the Documents before it used up the budget
C14_EndEmitsFirstThatDoesNotFit ==
    (truncater_called /\ strategy = "end" /\ available > 0 /\ not_fitting # {}) =>
        LET first == SetMin(not_fitting)
            out   == truncated_output.documents
        IN  /\ truncater_returned
            /\ Len(out) >= first
            /\ \A k \in 1..(first - 1) :
                   /\ out[k] = k
                   /\ "truncated" \notin dict_keys(metas[docs[k].meta])
            /\ out[first] > truncated_output.given
            /\ marked_truncated(out[first])

\* C15: with the equal strategy and more tokens given than available, run
\* returns one Document per given Document; each given Document with content
\* gives a Document with the first floor(available / number of Documents
\* with content) tokens of the content, marked meta["truncated"] = True
C15_EqualCutsEveryDocument ==
    ( /\ truncater_called /\ strategy = "equal" /\ available > 0
      /\ sum_tokens(given_documents, 1) > available ) =>
        LET out   == truncated_output.documents
            share == available \div docs_with_content(docs, given_documents)
        IN  /\ truncater_returned
            /\ Len(out) = truncated_output.given
            /\ \A k \in 1..truncated_output.given :
                   has_content(docs[k]) =>
                       /\ docs[out[k]].content =
                              Some(tokenizer_decode(
                                       first_n(tokenizer_encode(docs[k].content[1]), share)))
                       /\ marked_truncated(out[k])

\* C16: on a truncater that was constructed with max_token_len -
\* reserve_token_len <= 0, every call of run raises ValueError and returns
\* no Documents, whatever the list given, the empty list included
C16_NoBudgetAlwaysRaises ==
    (truncater = "ready" /\ truncater_called /\ available <= 0) =>
        /\ truncated_output.err = "ValueError"
        /\ truncated_output.documents = <<>>

\* C17: when run returns, the token counts of the contents of the returned
\* Documents sum to at most max_token_len - reserve_token_len
C17_OutputWithinBudget ==
    (truncater_called /\ truncater_returned) =>
        sum_tokens(truncated_output.documents, 1) <= available

----------------------------------------------------------------------------
(* Tables in the text: exclude mode and inline mode *)

\* the page under which get_tables_per_page files table t
page_of_table(t) == analysis.tables[t].regions[1]

\* C21: with extract_tables_separately = False and table_format = "text"
\* (exclude mode), a line or paragraph of the table's page whose offset lies
\* in the table's span does not appear in the assembled text, in every
\* page layout
C21_ExcludeModeWithoutCsv ==
    (conversion_returned /\ ~extract_tables_separately /\ table_format = "text") =>
        \A t \in 1..Len(analysis.tables) :
            LET table == analysis.tables[t] IN
            table.regions # <<>> =>
                /\ \A p \in 1..Len(analysis.pages) :
                       analysis.pages[p].page_number = page_of_table(t) =>
                           \A l \in 1..Len(analysis.pages[p].lines) :
                               LET line == analysis.pages[p].lines[l] IN
                               (page_layout \in {"single_column", "single_column_by_line"}
                                /\ offset_in_table(line, table))
                               => ~occurs_in(line.content[1], converted_text)
                /\ \A q \in 1..Len(analysis.paragraphs) :
                       LET paragraph == analysis.paragraphs[q] IN
                       ( /\ page_layout \in {"natural", "single_column_by_paragraph"}
                         /\ paragraph.regions # <<>>
                         /\ paragraph.regions[1] = page_of_table(t)
                         /\ offset_in_table(paragraph, table) )
                       => ~occurs_in(paragraph.content[1], converted_text)

\* the content of a table as it is written into the text
table_text(t) == get_table_content(analysis.tables[t])

\* the string sub occurs in the string s
occurs_as_substring(sub, s) ==
    \E i \in 1..(Len(s) - Len(sub) + 1) : SubSeq(s, i, i + Len(sub) - 1) = sub

\* C22: in inline mode (extract_tables_separately = False, table_format =
\* "csv") every table is in the assembled text, also the table of a page
\* that keeps no text object or never had one
C22_InlineTablesAppear ==
    (conversion_returned /\ ~extract_tables_separately /\ table_format = "csv") =>
        \A t \in 1..Len(analysis.tables) :
            occurs_as_substring(table_text(t), converted_text)

----------------------------------------------------------------------------
(* _extract_table_documents as a state machine: an analysis result with    *)
(* lines around one table, a converter with its two context lengths, then  *)
(* one call                                                                *)

ContextOffsets == 0..4
ContextTableOffsets == {2}

\* lines of pages 1 and 2, by ascending offset
ContextLineLists ==
    UNION {{l \in [1..n -> [place : {"line 1", "line 2"}, polygon : {<<0, 0>>},
                            offset : ContextOffsets]] :
              \A k \in 1..(n - 1) : l[k].offset < l[k + 1].offset} :
           n \in 0..MaxContextLines}

ContextTables ==
    {AnalysisTable(r, o, l) : r \in TableRegions, o \in ContextTableOffsets,
                              l \in TableLengths}

InitTables ==
    /\ IdleChunker
    /\ IdleRows
    /\ IdleDocs
    /\ IdleText
    /\ IdleTruncater
    /\ converter = "new"
    /\ page_layout = "natural"
    /\ converter_threshold_y = None
    /\ table_format = "csv"
    /\ extract_tables_separately = TRUE
    /\ preceding_context_len = 0
    /\ following_context_len = 0
    /\ \E specs \in ContextLineLists, table \in ContextTables :
          analysis = make_analysis(specs, <<table>>)
    /\ converted = NotConverted

\* the Documents of the tables are created from description k on, each
\* with the dict table_meta of its own
RECURSIVE create_table_documents_from(_, _, _)
create_table_documents_from(described, k, st) ==
    IF k > Len(described) THEN st
    ELSE
      LET heap == Append(st.metas, described[k].meta)
          ds   == Append(st.docs, new_document(<<>>, Some(described[k].content), None,
                                               Len(heap), None, None, None, heap))
      IN  create_table_documents_from(described, k + 1,
                                      RunState(ds, heap, Append(st.new_docs, Len(ds)), ""))

\* _extract_table_documents(result=analysis, meta={})
ExtractTablesCall ==
    /\ converter = "ready"
    /\ converted = NotConverted
    /\ LET out == extract_table_documents(analysis, <<>>, preceding_context_len,
                                          following_context_len)
           st  == create_table_documents_from(out, 1, RunState(docs, metas, <<>>, ""))
       IN  /\ converted' = [err |-> "", documents |-> st.new_docs]
           /\ docs' = st.docs
           /\ metas' = st.metas
    /\ UNCHANGED <<compared, run_output>>
    /\ UNCHANGED <<converter, page_layout, converter_threshold_y, table_format,
                   extract_tables_separately, preceding_context_len,
                   following_context_len, analysis>>
    /\ UNCHANGED <<chunkerVars, rowsVars, textVars, truncaterVars>>

NextTables ==
    \/ /\ converter = "new"
       /\ \E preceding_len \in 0..MaxContextLen, following_len \in 0..MaxContextLen :
             ConstructConverter("natural", None, "csv", TRUE, preceding_len, following_len)
    \/ ExtractTablesCall

SpecTables == InitTables /\ [][NextTables]_vars

\* the lines of a context string: none for "", else the pieces between "\n"
context_lines(ctx) == IF ctx = <<>> THEN <<>> ELSE str_split(ctx, <<NL>>)

\* the meta of the k-th Document returned
converted_meta(k) == metas[docs[converted.documents[k]].meta]

\* the contents of the lines of page pn with an offset before (after) bound
contents_on_side(pn, before, bound) ==
    LET lines == lines_of_page(analysis, pn) IN
    {lines[l].content :
        l \in {m \in 1..Len(lines) :
                 IF before THEN lines[m].offset < bound ELSE lines[m].offset > bound}}

\* C24: for every preceding_context_len = N >= 0 and following_context_len
\* = M >= 0, the preceding_context of a table Document has at most N lines,
\* all of them lines of the table's first page with an offset before the
\* table's span, and the following_context at most M lines, all of them
\* lines of the table's last page with an offset after the span
C24_ContextWithinLengths ==
    conversion_called =>
        \A k \in 1..Len(converted.documents) :
            \E t \in 1..Len(analysis.tables) :
                LET table     == analysis.tables[t]
                    preceding == context_lines(dict_get(converted_meta(k),
                                                        "preceding_context"))
                    following == context_lines(dict_get(converted_meta(k),
                                                        "following_context"))
                IN  /\ Len(preceding) <= preceding_context_len
                    /\ Len(following) <= following_context_len
                    /\ \A i \in 1..Len(preceding) :
                           /\ table.regions # <<>>
                           /\ preceding[i] \in contents_on_side(table.regions[1], TRUE,
                                                                table.offset)
                    /\ \A i \in 1..Len(following) :
                           /\ table.regions # <<>>
                           /\ following[i] \in
                                  contents_on_side(table.regions[Len(table.regions)], FALSE,
                                                   table.offset + table.length)

----------------------------------------------------------------------------
(* The order of the rows and the partition of the objects *)

\* the objects of a row, as a set of indices
row_members(row) == {row[k] : k \in 1..Len(row)}

\* C25: on every page the objects of a row are in ascending order of the x
\* of their upper-left point, the rows are in ascending order of the y of
\* the upper-left point of their first object, and the rows are the rows
\* of the clustering with their objects reordered: nothing added or dropped
C25_RowsSorted ==
    rows_returned =>
        \A pn \in Pages :
            LET objects == objects_by_page[pn]
                rows    == rows_of_objects.rows[pn]
                before  == merged_pairs(objects, threshold_y)
            IN  /\ \A r \in 1..Len(rows) : \A k \in 1..(Len(rows[r]) - 1) :
                       objects[rows[r][k]].polygon[1] <= objects[rows[r][k + 1]].polygon[1]
                /\ \A r \in 1..(Len(rows) - 1) :
                       objects[rows[r][1]].polygon[2] <= objects[rows[r + 1][1]].polygon[2]
                /\ Len(rows) = Len(before)
                /\ {row_members(rows[r]) : r \in 1..Len(rows)}
                       = {row_members(before[r]) : r \in 1..Len(before)}
                /\ \A r \in 1..Len(rows) : Len(rows[r]) = Cardinality(row_members(rows[r]))

\* three objects of page 1: the first two share a row and stand in it right
\* before left, the third lies above them; the sort swaps both orders
C25_Witness ==
    /\ rows_returned
    /\ threshold_y = 1
    /\ Len(objects_by_page[1]) = 3
    /\ objects_by_page[1][1].polygon = <<1, 2>>
    /\ objects_by_page[1][2].polygon = <<0, 2>>
    /\ objects_by_page[1][3].polygon = <<0, 0>>
    /\ rows_of_objects.rows[1] = << <<3>>, <<2, 1>> >>
\* the rows are a partition of the n objects of a page: every object is in
\* exactly one row, at one place, and no row is empty
is_partition(rows, n) ==
    /\ \A r \in 1..Len(rows) : rows[r] # <<>>
    /\ \A i \in 1..n :
           Cardinality({rk \in {q \in (1..Len(rows)) \X (1..n) : q[2] <= Len(rows[q[1]])} :
                           rows[rk[1]][rk[2]] = i}) = 1
    /\ \A r \in 1..Len(rows) : \A k \in 1..Len(rows[r]) : rows[r][k] \in 1..n

\* object i of the page has no other object within threshold_y, or the page
\* has an object without polygon
stands_alone(pn, i) ==
    LET objects == objects_by_page[pn] IN
    \/ \E j \in 1..Len(objects) : objects[j].polygon = <<>>
    \/ \A j \in 1..Len(objects) :
           j # i => ~(Abs(objects[i].polygon[2] - objects[j].polygon[2]) < threshold_y)

\* an object that stands alone is a row by itself
alone_in_row(rows, i) == \E r \in 1..Len(rows) : rows[r] = <<i>>

----------------------------------------------------------------------------
(* The split pass of _chunk_text *)

\* the fragments of the text under separator k: the non-blank splits
fragments_of(k) == SelectSeq(raw_splits(text, separators[k]), strip_nonempty)

\* separator k is the one whose pass builds the chunks of the text: the
\* separators before it leave the text in one piece
builds_chunks(k) ==
    /\ k \in 1..Len(separators)
    /\ Len(fragments_of(k)) # 1
    /\ \A j \in 1..(k - 1) : Len(fragments_of(j)) = 1

\* no fragment of the pass is oversized
all_fragments_fit(k) ==
    \A i \in 1..Len(fragments_of(k)) :
        Len(split_text_of(fragments_of(k)[i], separators[k])) <= chunk_size

\* C26: with chunk_overlap = 0, when the chunks of a text come from one
\* split pass without oversized fragments, any two adjacent chunks have a
\* combined length > chunk_size (a fragment that forced a flush starts the
\* next buffer and later fragments are accumulated onto it)
C26_GreedyPacking ==
    (returns /\ chunk_overlap = 0 /\ ~fits_chunk_size(text)) =>
        \A k \in 1..Len(separators) :
            (builds_chunks(k) /\ all_fragments_fit(k)) =>
                \A i \in 1..(Len(result.chunks) - 1) :
                    Len(result.chunks[i].out) + Len(result.chunks[i + 1].out) > chunk_size
\* C30: with chunk_overlap = k > 0 every returned chunk has length <=
\* chunk_size + k, also a chunk that comes from a recursive call on an
\* oversized fragment
C30_OverlapAddedOnce ==
    (returns /\ chunk_overlap > 0) =>
        \A i \in 1..Len(result.chunks) :
            Len(result.chunks[i].out) <= chunk_size + chunk_overlap
\* no separator of the chunker is the sentinel "sentence"
no_sentinel == \A k \in 1..Len(separators) : separators[k] # SENTENCE

\* every character of every returned chunk is a character of the text
chunks_made_of_text ==
    \A i \in 1..Len(result.chunks) : \A j \in 1..Len(result.chunks[i].out) :
        \E m \in 1..Len(text) : text[m] = result.chunks[i].out[j]

\* C27: only the separator "sentence" makes _chunk_text split into
\* sentences. A chunker without that separator never needs the sentence
\* tokenizer, and a literal separator other than "sentence" is appended to
\* the fragments it split off only, so with literal separators the chunks
\* consist of characters of the text
C27_OnlySentinelSplitsSentences ==
    called =>
        /\ no_sentinel => result.err # "AttributeError"
        /\ (returns /\ ~is_separator_regex) => chunks_made_of_text
----------------------------------------------------------------------------
(* The effect of RecursiveChunker.run on the Documents it was given *)

\* the step is a call of run that returned
run_step == run_output = NotRun /\ run_output' # NotRun /\ run_output'.err = ""

\* C28: a call of run leaves every Document it was given as it was, the
\* keys and values of its meta included (original_id goes into the chunk
\* Documents only), and no chunk Document has the dict of its parent or of
\* another chunk as its meta
C28_RunLeavesInputsUnchanged ==
    [][run_step =>
          /\ \A i \in 1..Len(docs) :
                 /\ docs'[i] = docs[i]
                 /\ metas'[docs[i].meta] = metas[docs[i].meta]
          /\ \A i \in (Len(docs) + 1)..Len(docs') : \A j \in 1..Len(docs') :
                 i # j => docs'[i].meta # docs'[j].meta]_vars

====
